---- MODULE Spec2Model ----
(***************************************************************************)
(* State-machine model of the marketing report generators:                 *)
(*   src/src/daily_report.py     the dashboard (windows, daily series,     *)
(*                               summary totals)                           *)
(*   src/src/daily_report_kr.py  the Korean report (summary, geographic    *)
(*                               breakdown, anomaly detection)             *)
(*                                                                         *)
(* Representation.                                                         *)
(*  - A calendar date is its day ordinal (date.toordinal); timedelta       *)
(*    arithmetic is integer arithmetic on ordinals.                        *)
(*  - A date STRING is a record [fmt, ord]: fmt "iso" is the 10-character  *)
(*    'YYYY-MM-DD' text of day ord, fmt "ga4" the 8-character 'YYYYMMDD'   *)
(*    text of day ord, fmt "other" any other text.  Two strings are equal  *)
(*    exactly when the records are equal, so the 'YYYYMMDD' and the        *)
(*    'YYYY-MM-DD' text of one day are different dictionary keys.          *)
(*  - Money is held in micros (cost_micros / 1_000_000 is a rescaling),    *)
(*    ads conversions in hundredths of a conversion, rates in hundredths   *)
(*    of a percent where the code rounds to two decimals.  Threshold       *)
(*    comparisons are made exactly, by cross-multiplication (IEEE rounding *)
(*    of the doubles is not modelled).                                     *)
(***************************************************************************)
EXTENDS Integers, Sequences, FiniteSets, TLC

\* ---------------------------------------------------------------- bounds
\* Largest day ordinal of a run in the window specification (two full
\* 30-day windows fit, so prev30 is exercised full, clipped and empty).
MaxDay == 62
\* Largest day ordinal of a run in the daily-series specification.
MaxDailyDay == 3
\* Longest provider response enumerated in the daily-series specification.
MaxRows == 2

VARIABLES
    pc,          \* dashboard run: position inside main ("start", "returned",
                 \* "constructed", "collected" | "failed", "charts",
                 \* "extra_charts", "report_html", "done")
    start_date,  \* ReportGenerator.start_date (an iso date string)
    end_date,    \* ReportGenerator.end_date   (an iso date string)
    replies,     \* what the two providers answer to each query of the run
    ga4_rows,    \* rows GA4Client.run_report returned for the daily series
    ads_rows,    \* rows AdsClient.run_query returned for the daily series
    report,      \* what collect_all_data computed
    kr_pc,       \* Korean report run: position inside main ("start",
                 \* "returned", "constructed", "collected", "written")
    kr_replies,  \* Korean report: what the providers answered this run
    kr_data,     \* Korean report: ReportGenerator.data
    call,        \* helper under direct call: its name, "none" before the call
    args,        \* the arguments of that call
    result,      \* what the call returned or raised
    env,         \* os.environ: PROPERTY_ID and CUSTOMER_ID ("" when unset)
    clients,     \* the provider clients constructed so far
    queries,     \* the provider queries sent so far, in order
    files        \* the files written so far, in order

vars ==
    <<pc, start_date, end_date, replies, ga4_rows, ads_rows, report,
      kr_pc, kr_replies, kr_data, call, args, result,
      env, clients, queries, files>>
dashVars == <<pc, start_date, end_date, replies, ga4_rows, ads_rows, report>>
krVars == <<kr_pc, kr_replies, kr_data>>
callVars == <<call, args, result>>
mainVars == <<env, clients, queries, files>>

\* ------------------------------------------------------------- utilities
Range(s) == {s[i] : i \in 1..Len(s)}

Max(a, b) == IF a >= b THEN a ELSE b

Abs(x) == IF x < 0 THEN -x ELSE x

\* All sequences over S of length at most n.
SeqsUpTo(S, n) == UNION {[1..k -> S] : k \in 0..n}

\* sum(r[field] for r in rows).
RECURSIVE SumRows(_, _)
SumRows(rows, field) ==
    IF rows = <<>> THEN 0 ELSE Head(rows)[field] + SumRows(Tail(rows), field)

\* ---------------------------------------------------------------- numbers
\* A Python number is held exactly, as a reduced fraction [num, den] with
\* den > 0 (so two numbers are equal exactly when the records are equal).
RECURSIVE GCD(_, _)
GCD(a, b) == IF b = 0 THEN a ELSE GCD(b, a % b)

\* n / d for d # 0.
Frac(n, d) ==
    LET g == GCD(Abs(n), Abs(d))
        s == IF d < 0 THEN -1 ELSE 1
    IN  [num |-> (s * n) \div g, den |-> (s * d) \div g]

Whole(n) == Frac(n, 1)

FracSub(x, y) == Frac(x.num * y.den - y.num * x.den, x.den * y.den)

FracMul(x, y) == Frac(x.num * y.num, x.den * y.den)

FracAbs(x) == [num |-> Abs(x.num), den |-> x.den]

FracLess(x, y) == x.num * y.den < y.num * x.den

\* The exception a Python division raises on a zero divisor.
ZeroDivisionError == [raised |-> "ZeroDivisionError"]

\* numerator / denominator.
Divide(numerator, denominator) ==
    IF denominator.num = 0 THEN ZeroDivisionError
    ELSE Frac(numerator.num * denominator.den, numerator.den * denominator.num)

\* cost_micros / 1_000_000.
FromMicros(cost_micros) == Frac(cost_micros, 1000000)

\* A conversion count the model holds in hundredths.
FromHundredths(conversions) == Frac(conversions, 100)

\* Mutant of safe_div: the zero test is dropped.
safe_div_unguarded(numerator, denominator) == Divide(numerator, denominator)

\* safe_div.
safe_div(numerator, denominator) ==
    IF denominator.num = 0 THEN Whole(0) ELSE Divide(numerator, denominator)

\* ----------------------------------------------------------- date strings
\* date.isoformat(): the 'YYYY-MM-DD' text of a day.
isoformat(o) == [fmt |-> "iso", ord |-> o]

\* The 'YYYYMMDD' text of a day, as the analytics provider writes it.
Ga4Text(o) == [fmt |-> "ga4", ord |-> o]

\* A text that is no date (the '' of row.get("date", "")).
OtherText == [fmt |-> "other", ord |-> 0]

\* datetime.strptime(value, "%Y-%m-%d").date() of an iso text.
strptime(value) == value.ord

\* len(value) of a date string.
TextLen(value) == IF value.fmt = "ga4" THEN 8 ELSE IF value.fmt = "iso" THEN 10 ELSE 0

\* parse_ga4_date: an 8-character text is re-cut as YYYY-MM-DD, any other
\* text is returned as it is.
parse_ga4_date(value) ==
    IF TextLen(value) = 8 THEN [fmt |-> "iso", ord |-> value.ord] ELSE value

\* iso_date_range: range(days) is empty when days <= 0.
iso_date_range(start, end) ==
    LET days == (end - start) + 1
    IN  IF days <= 0 THEN <<>>
        ELSE [offset \in 1..days |-> isoformat(start + (offset - 1))]

safe_date_range(start, end) ==
    IF start > end THEN <<>> ELSE iso_date_range(start, end)

\* ------------------------------------------- collect_all_data: the windows
\* Mutant: the pre-initialised range stops the day before the end date.
all_dates_exclusive(start, end) == iso_date_range(start, end - 1)

all_dates(start, end) == iso_date_range(start, end)

last_30_start(start, end) == Max(start, end - 29)

last_30_dates(start, end) == iso_date_range(last_30_start(start, end), end)

\* Mutant: the last-7 window runs up to the end date itself.
last_7_end_inclusive(end) == end

last_7_end(end) == end - 1

last_7_start(start, end) == Max(start, last_7_end(end) - 6)

last_7_dates(start, end) == safe_date_range(last_7_start(start, end), last_7_end(end))

last_30_end(end) == end - 1

last_30_complete_start(start, end) == Max(start, last_30_end(end) - 29)

last_30_complete_dates(start, end) ==
    safe_date_range(last_30_complete_start(start, end), last_30_end(end))

prev_7_end(start, end) == last_7_start(start, end) - 1

\* Mutant: the previous-7 window is not clipped at the start date.
prev_7_start_unclipped(start, end) == prev_7_end(start, end) - 6

prev_7_start(start, end) == Max(start, prev_7_end(start, end) - 6)

prev_7_dates(start, end) ==
    IF last_7_dates(start, end) # <<>>
    THEN safe_date_range(prev_7_start(start, end), prev_7_end(start, end))
    ELSE <<>>

prev_30_end(start, end) == last_30_complete_start(start, end) - 1

prev_30_start(start, end) == Max(start, prev_30_end(start, end) - 29)

prev_30_dates(start, end) ==
    IF last_30_complete_dates(start, end) # <<>>
    THEN safe_date_range(prev_30_start(start, end), prev_30_end(start, end))
    ELSE <<>>

\* ------------------------------------------------ the daily series (merge)
ZeroGa4 == [sessions |-> 0, activeUsers |-> 0]

ZeroAds ==
    [cost |-> 0, impressions |-> 0, clicks |-> 0, conversions |-> 0,
     conversion_value |-> 0]

\* Mutant of Ga4MergeRow: a date that is no key of the map gets a new entry.
Ga4MergeRowExpand(data, row) ==
    LET date_key == parse_ga4_date(row.date)
        bucket == [sessions |-> row.sessions, activeUsers |-> row.activeUsers]
    IN  IF date_key \notin DOMAIN data THEN data @@ (date_key :> bucket)
        ELSE [data EXCEPT ![date_key] = bucket]

\* One iteration of the loop of _get_ga4_daily_series: the row's counters
\* are ASSIGNED to the bucket of its (re-cut) date; a date that is no key of
\* the map is skipped.
Ga4MergeRow(data, row) ==
    LET date_key == parse_ga4_date(row.date)
    IN  IF date_key \notin DOMAIN data THEN data
        ELSE [data EXCEPT ![date_key].sessions = row.sessions,
                          ![date_key].activeUsers = row.activeUsers]

RECURSIVE Ga4MergeRows(_, _)
Ga4MergeRows(data, rows) ==
    IF rows = <<>> THEN data
    ELSE Ga4MergeRows(Ga4MergeRow(data, Head(rows)), Tail(rows))

\* _get_ga4_daily_series: (data, bool(rows)).
get_ga4_daily_series(rows, dates) ==
    [data |-> Ga4MergeRows([d \in Range(dates) |-> ZeroGa4], rows),
     has_data |-> rows # <<>>]

\* One iteration of the loop of _get_ads_daily_series; st is the pair
\* (data, has_conv_value).  The row's counters are ADDED to the bucket of
\* its date; conversions_value is an optional attribute (<<>> is None).
AdsMergeRow(st, row) ==
    LET date_key == row.date
    IN  IF date_key \notin DOMAIN st.data THEN st
        ELSE LET added ==
                   [st.data EXCEPT
                      ![date_key].cost = @ + row.cost_micros,
                      ![date_key].impressions = @ + row.impressions,
                      ![date_key].clicks = @ + row.clicks,
                      ![date_key].conversions = @ + row.conversions]
             IN  IF row.conversions_value # <<>>
                 THEN [data |-> [added EXCEPT ![date_key].conversion_value =
                                                  @ + row.conversions_value[1]],
                       has_conv_value |-> TRUE]
                 ELSE [data |-> added, has_conv_value |-> st.has_conv_value]

RECURSIVE AdsMergeRows(_, _)
AdsMergeRows(st, rows) ==
    IF rows = <<>> THEN st
    ELSE AdsMergeRows(AdsMergeRow(st, Head(rows)), Tail(rows))

\* _get_ads_daily_series: (data, bool(rows), has_conv_value).
get_ads_daily_series(rows, dates) ==
    LET st == AdsMergeRows([data |-> [d \in Range(dates) |-> ZeroAds],
                            has_conv_value |-> FALSE], rows)
    IN  [data |-> st.data, has_data |-> rows # <<>>,
         has_conv_value |-> st.has_conv_value]

\* ------------------------------------------------- _build_summary: totals
\* sum(daily[d][field] for d in dates), left to right from 0.
RECURSIVE SumOver(_, _, _)

\* Mutant: the loop stops one date early (the last date is left out).
RECURSIVE SumOverDropLast(_, _, _)
SumOverDropLast(daily, dates, field) ==
    IF Len(dates) <= 1 THEN 0
    ELSE daily[Head(dates)][field] + SumOverDropLast(daily, Tail(dates), field)

SumOver(daily, dates, field) ==
    IF dates = <<>> THEN 0
    ELSE daily[Head(dates)][field] + SumOver(daily, Tail(dates), field)

\* sum_series indexes both maps with every date of the window: a date that
\* is no key raises KeyError.
sum_series(ga4_daily, ads_daily, dates) ==
    IF \E d \in Range(dates) : d \notin DOMAIN ga4_daily \/ d \notin DOMAIN ads_daily
    THEN [raised |-> "KeyError"]
    ELSE [raised |-> "",
          ga4_sessions |-> SumOver(ga4_daily, dates, "sessions"),
          ga4_active_users |-> SumOver(ga4_daily, dates, "activeUsers"),
          ads_cost |-> SumOver(ads_daily, dates, "cost"),
          ads_impressions |-> SumOver(ads_daily, dates, "impressions"),
          ads_clicks |-> SumOver(ads_daily, dates, "clicks"),
          ads_conversions |-> SumOver(ads_daily, dates, "conversions"),
          ads_conversion_value |-> SumOver(ads_daily, dates, "conversion_value")]

\* dict.get(key, default).
Lookup(daily, key, default) == IF key \in DOMAIN daily THEN daily[key] ELSE default

\* The number behind a metric of a summary: the model holds ads_cost in
\* micros and the two conversion metrics' counts in hundredths.
MetricValue(metrics, key) ==
    IF key = "ads_cost" THEN FromMicros(metrics[key])
    ELSE IF key = "ads_conversions" THEN FromHundredths(metrics[key])
    ELSE IF key \in {"ads_ctr", "ads_cpc", "ads_cpa"} THEN metrics[key]
    ELSE IF key = "ads_roas" THEN metrics[key][1]
    ELSE Whole(metrics[key])

\* Mutant of Ratios: ads_roas is computed whether or not a conversion value
\* was supplied.
RatiosAlwaysRoas(m, has_conv_value) ==
    [ads_ctr |-> FracMul(safe_div(Whole(m.ads_clicks), Whole(m.ads_impressions)), Whole(100)),
     ads_cpc |-> safe_div(FromMicros(m.ads_cost), Whole(m.ads_clicks)),
     ads_cpa |-> safe_div(FromMicros(m.ads_cost), FromHundredths(m.ads_conversions)),
     ads_roas |-> <<safe_div(Whole(m.ads_conversion_value), FromMicros(m.ads_cost))>>]

\* The four derived entries _build_summary adds to every metrics dict;
\* ads_roas is None (<<>>) unless has_conv_value.
Ratios(m, has_conv_value) ==
    [ads_ctr |-> FracMul(safe_div(Whole(m.ads_clicks), Whole(m.ads_impressions)), Whole(100)),
     ads_cpc |-> safe_div(FromMicros(m.ads_cost), Whole(m.ads_clicks)),
     ads_cpa |-> safe_div(FromMicros(m.ads_cost), FromHundredths(m.ads_conversions)),
     ads_roas |-> IF has_conv_value
                  THEN <<safe_div(Whole(m.ads_conversion_value), FromMicros(m.ads_cost))>>
                  ELSE <<>>]

\* yesterday_metrics, today_metrics and day_before_metrics: the day's entry
\* of each map, or zeros when the day is no key.
day_metrics(ga4_daily, ads_daily, key, has_conv_value) ==
    LET g == Lookup(ga4_daily, key, ZeroGa4)
        a == Lookup(ads_daily, key, ZeroAds)
        m == [ga4_sessions |-> g.sessions,
              ga4_active_users |-> g.activeUsers,
              ads_cost |-> a.cost,
              ads_impressions |-> a.impressions,
              ads_clicks |-> a.clicks,
              ads_conversions |-> a.conversions,
              ads_conversion_value |-> a.conversion_value]
    IN  [k \in DOMAIN m \ {"ads_conversion_value"} |-> m[k]] @@ Ratios(m, has_conv_value)

\* sum_series(dates) with the four derived entries added.
window_totals(ga4_daily, ads_daily, dates, has_conv_value) ==
    LET t == sum_series(ga4_daily, ads_daily, dates)
    IN  IF t.raised # "" THEN t ELSE t @@ Ratios(t, has_conv_value)

\* Mutant of format_delta: a previous value of 0 is reported as a change
\* of 0%.
format_delta_zero_percent(current, previous) ==
    IF previous.num = 0
    THEN <<[arrow |-> "flat", percent |-> [num |-> 0, den |-> 1], digits |-> 0]>>
    ELSE LET delta == FracMul(Divide(FracSub(current, previous), previous), Whole(100))
         IN  <<[arrow |-> IF delta.num > 0 THEN "up"
                          ELSE IF delta.num < 0 THEN "down" ELSE "flat",
                percent |-> FracAbs(delta),
                digits |-> 0]>>

\* format_delta: None (<<>>) when previous == 0, otherwise the arrow of the
\* sign of delta and abs(delta), which the text prints with no decimals.
format_delta(current, previous) ==
    IF previous.num = 0 THEN <<>>
    ELSE LET delta == FracMul(Divide(FracSub(current, previous), previous), Whole(100))
         IN  <<[arrow |-> IF delta.num > 0 THEN "up"
                          ELSE IF delta.num < 0 THEN "down" ELSE "flat",
                percent |-> FracAbs(delta),
                digits |-> 0]>>

\* The metric keys _format_cards walks, in order.
CardKeys(has_conv_value) ==
    <<"ga4_sessions", "ga4_active_users", "ads_cost", "ads_impressions",
      "ads_clicks", "ads_conversions", "ads_ctr", "ads_cpc", "ads_cpa">>
        \o (IF has_conv_value THEN <<"ads_roas">> ELSE <<>>)

\* The keys whose all-time card carries a daily average.
AveragedKeys ==
    {"ga4_sessions", "ga4_active_users", "ads_cost", "ads_impressions",
     "ads_clicks", "ads_conversions"}

\* SelectSeq with a test on the key.
KeysWithValue(keys, metrics) ==
    SelectSeq(keys, LAMBDA k : ~(k = "ads_roas" /\ metrics[k] = <<>>))

\* _format_cards: one card per key whose value is not None.  A card is
\* identified by its key (one label per key); value is the number the
\* text displays, sub the daily average of an all-time card.
format_cards(metrics, has_conv_value, include_avg, days) ==
    LET keys == KeysWithValue(CardKeys(has_conv_value), metrics)
    IN  [i \in 1..Len(keys) |->
            [label |-> keys[i],
             value |-> MetricValue(metrics, keys[i]),
             sub |-> IF include_avg /\ keys[i] \in AveragedKeys
                     THEN <<safe_div(MetricValue(metrics, keys[i]), Whole(days))>>
                     ELSE <<>>]]

\* _format_cards_with_delta: every card gets the delta against the same
\* key of compare_metrics (None when either value is no number).
format_cards_with_delta(metrics, compare_metrics, has_conv_value) ==
    LET cards == format_cards(metrics, has_conv_value, FALSE, 1)
    IN  [i \in 1..Len(cards) |->
            LET key == cards[i].label
            IN  cards[i] @@
                [delta |-> IF key = "ads_roas" /\ compare_metrics[key] = <<>>
                           THEN <<>>
                           ELSE format_delta(MetricValue(metrics, key),
                                             MetricValue(compare_metrics, key))]]

\* _build_summary: the window totals, the three single-day metrics and the
\* cards.  end_text is self.end_date.
build_summary(ga4_daily, ads_daily, l7, p7, l30, p30, all, has_conv_value, end_text) ==
    LET today_key == end_text
        yesterday_key == isoformat(strptime(end_text) - 1)
        day_before_key == isoformat(strptime(yesterday_key) - 1)
        yesterday_metrics == day_metrics(ga4_daily, ads_daily, yesterday_key, has_conv_value)
        today_metrics == day_metrics(ga4_daily, ads_daily, today_key, has_conv_value)
        day_before_metrics == day_metrics(ga4_daily, ads_daily, day_before_key, has_conv_value)
        t == [last_7_totals |-> window_totals(ga4_daily, ads_daily, l7, has_conv_value),
              prev_7_totals |-> window_totals(ga4_daily, ads_daily, p7, has_conv_value),
              last_30_totals |-> window_totals(ga4_daily, ads_daily, l30, has_conv_value),
              prev_30_totals |-> window_totals(ga4_daily, ads_daily, p30, has_conv_value),
              all_totals |-> window_totals(ga4_daily, ads_daily, all, has_conv_value)]
    IN  IF \E k \in DOMAIN t : t[k].raised # ""
        THEN [raised |-> "KeyError"]
        ELSE [raised |-> "",
              yesterday_metrics |-> yesterday_metrics,
              today_metrics |-> today_metrics,
              day_before_metrics |-> day_before_metrics,
              yesterday_cards |->
                  format_cards_with_delta(yesterday_metrics, day_before_metrics, has_conv_value),
              today_cards |->
                  format_cards_with_delta(today_metrics, yesterday_metrics, has_conv_value),
              last_7_cards |->
                  format_cards_with_delta(t.last_7_totals, t.prev_7_totals, has_conv_value),
              last_30_cards |->
                  format_cards_with_delta(t.last_30_totals, t.prev_30_totals, has_conv_value),
              all_time_cards |-> format_cards(t.all_totals, has_conv_value, TRUE, Len(all)),
              total_days |-> Len(all),
              yesterday_date |-> yesterday_key] @@ t

\* ------------------------------------------------------ the two providers
\* What a provider answers to one query: rows, or a failure of the call.
\* service maps the name of every query of a run to its answer.
Answer(rows) == [ok |-> TRUE, rows |-> rows]

Failure == [ok |-> FALSE, rows |-> <<>>]

\* GA4Client.run_report: the rows, or the exception of the call.
run_report(service, query) ==
    IF service[query].ok
    THEN [raised |-> "", rows |-> service[query].rows]
    ELSE [raised |-> "Exception", rows |-> <<>>]

\* Mutant of run_query: a failure that no fallback repairs is answered
\* with no rows instead of the exception.
run_query_degrading(service, query, fallback_query) ==
    IF service[query].ok
    THEN [raised |-> "", rows |-> service[query].rows, issued |-> <<query>>]
    ELSE IF fallback_query = ""
    THEN [raised |-> "", rows |-> <<>>, issued |-> <<query>>]
    ELSE IF service[fallback_query].ok
    THEN [raised |-> "", rows |-> service[fallback_query].rows,
          issued |-> <<query, fallback_query>>]
    ELSE [raised |-> "", rows |-> <<>>, issued |-> <<query, fallback_query>>]

\* Mutant of run_query: the rows of the fallback are appended to the rows
\* of a primary search that succeeded.
run_query_mixing(service, query, fallback_query) ==
    IF service[query].ok
    THEN IF fallback_query # "" /\ service[fallback_query].ok
         THEN [raised |-> "",
               rows |-> service[query].rows \o service[fallback_query].rows,
               issued |-> <<query, fallback_query>>]
         ELSE [raised |-> "", rows |-> service[query].rows, issued |-> <<query>>]
    ELSE IF fallback_query = ""
    THEN [raised |-> "Exception", rows |-> <<>>, issued |-> <<query>>]
    ELSE IF service[fallback_query].ok
    THEN [raised |-> "", rows |-> service[fallback_query].rows,
          issued |-> <<query, fallback_query>>]
    ELSE [raised |-> "Exception", rows |-> <<>>,
          issued |-> <<query, fallback_query>>]

\* Mutant of run_query: the fallback is issued whenever one is supplied.
run_query_always_fallback(service, query, fallback_query) ==
    IF fallback_query = ""
    THEN IF service[query].ok
         THEN [raised |-> "", rows |-> service[query].rows, issued |-> <<query>>]
         ELSE [raised |-> "Exception", rows |-> <<>>, issued |-> <<query>>]
    ELSE IF service[fallback_query].ok
         THEN [raised |-> "", rows |-> service[fallback_query].rows,
               issued |-> <<query, fallback_query>>]
         ELSE [raised |-> "Exception", rows |-> <<>>,
               issued |-> <<query, fallback_query>>]

\* AdsClient.run_query.  fallback_query "" is a fallback that is None or
\* empty (not fallback_query); issued lists the searches sent, in order.
run_query(service, query, fallback_query) ==
    IF service[query].ok
    THEN [raised |-> "", rows |-> service[query].rows, issued |-> <<query>>]
    ELSE IF fallback_query = ""
    THEN [raised |-> "Exception", rows |-> <<>>, issued |-> <<query>>]
    ELSE IF service[fallback_query].ok
    THEN [raised |-> "", rows |-> service[fallback_query].rows,
          issued |-> <<query, fallback_query>>]
    ELSE [raised |-> "Exception", rows |-> <<>>,
          issued |-> <<query, fallback_query>>]

\* ---------------------------------------------------------- list helpers
\* rows[:n].
Take(rows, n) == SubSeq(rows, 1, IF Len(rows) < n THEN Len(rows) ELSE n)

\* sorted(rows, key=lambda r: r[field], reverse=True): a stable sort, rows
\* of equal key keep their order.
InsertDescBy(sorted, r, field) ==
    LET k == Cardinality({i \in 1..Len(sorted) : sorted[i][field] >= r[field]})
    IN  SubSeq(sorted, 1, k) \o <<r>> \o SubSeq(sorted, k + 1, Len(sorted))

RECURSIVE SortDescBy(_, _, _)
SortDescBy(sorted, rows, field) ==
    IF rows = <<>> THEN sorted
    ELSE SortDescBy(InsertDescBy(sorted, Head(rows), field), Tail(rows), field)

\* pairs.sort(key=lambda x: x[1]) of (keyword, cpa) pairs: stable, ascending.
InsertAscByCpa(sorted, r) ==
    LET k == Cardinality({i \in 1..Len(sorted) : ~FracLess(r.cpa, sorted[i].cpa)})
    IN  SubSeq(sorted, 1, k) \o <<r>> \o SubSeq(sorted, k + 1, Len(sorted))

RECURSIVE SortAscByCpa(_, _)
SortAscByCpa(sorted, rows) ==
    IF rows = <<>> THEN sorted
    ELSE SortAscByCpa(InsertAscByCpa(sorted, Head(rows)), Tail(rows))

\* _short_label: the names of the model are at most 20 characters long,
\* which _short_label returns as they are.
short_label(value) == value

\* The waste test of the keyword rows: conversions == 0 and cost_micros > 0.
IsWaste(row) == row.conversions = 0 /\ row.cost_micros > 0

\* ------------------------------------------------------------ _build_tables
\* Rows kept by the campaign table.
CampaignLimit == 10

\* Rows kept by the landing-page and the source tables.
LandingLimit == 10

\* One iteration of the grouping loop: the row's counters are added to the
\* entry of its campaign name, which is created at its first row.  The dict
\* is held as the sequence of its entries in insertion order.
CampaignAddRow(campaigns, row) ==
    LET known == \E i \in 1..Len(campaigns) : campaigns[i].campaign = row.name
        base == IF known THEN campaigns
                ELSE Append(campaigns,
                            [campaign |-> row.name, impressions |-> 0, clicks |-> 0,
                             cost |-> 0, conversions |-> 0])
        at == CHOOSE i \in 1..Len(base) : base[i].campaign = row.name
    IN  [base EXCEPT ![at].impressions = @ + row.impressions,
                     ![at].clicks = @ + row.clicks,
                     ![at].cost = @ + row.cost_micros,
                     ![at].conversions = @ + row.conversions]

RECURSIVE CampaignAddRows(_, _)
CampaignAddRows(campaigns, rows) ==
    IF rows = <<>> THEN campaigns
    ELSE CampaignAddRows(CampaignAddRow(campaigns, Head(rows)), Tail(rows))

\* The three derived entries of a grouped campaign, from its totals.
CampaignWithRatios(c) ==
    c @@ [ctr |-> FracMul(safe_div(Whole(c.clicks), Whole(c.impressions)), Whole(100)),
          cpc |-> safe_div(FromMicros(c.cost), Whole(c.clicks)),
          cpa |-> safe_div(FromMicros(c.cost), FromHundredths(c.conversions))]

\* The campaign part of _build_tables: group, derive, sort by cost, cut.
campaign_list(campaign_rows) ==
    LET campaigns == CampaignAddRows(<<>>, campaign_rows)
        derived == [i \in 1..Len(campaigns) |-> CampaignWithRatios(campaigns[i])]
    IN  Take(SortDescBy(<<>>, derived, "cost"), CampaignLimit)

\* _build_tables: two analytics reports, then the campaign query; the first
\* call that fails ends the method.
build_tables(service) ==
    LET landing == run_report(service, "ga4_landing")
        source == run_report(service, "ga4_source")
        campaign == run_query(service, "campaign", "")
        landing_rows == Take(SortDescBy(<<>>, landing.rows, "sessions"), LandingLimit)
        source_rows == Take(SortDescBy(<<>>, source.rows, "sessions"), LandingLimit)
        campaigns == campaign_list(campaign.rows)
    IN  IF landing.raised # "" \/ source.raised # "" \/ campaign.raised # ""
        THEN [raised |-> "Exception"]
        ELSE [raised |-> "",
              landing_pages |-> landing_rows,
              source_medium |-> source_rows,
              campaigns |-> campaigns,
              top_landing |-> Take(landing_rows, 1),
              top_campaign |-> Take(campaigns, 1)]

\* ------------------------------------------------------- the keyword tables
\* Rows kept by the keyword tables and by the search-term table.
KeywordTableLimit == 20

\* _get_ads_keyword_rows: no query for an inverted range; otherwise one dict
\* per row the provider returned (ctr is the provider's ratio, conversions
\* are in hundredths).
get_ads_keyword_rows(service, query, start, end) ==
    IF start > end THEN [raised |-> "", rows |-> <<>>]
    ELSE LET answer == run_query(service, query, "")
         IN  [raised |-> answer.raised, rows |-> answer.rows]

\* _format_match_type (the four Korean labels are written in ASCII).
format_match_type(match_type) ==
    IF match_type = "BROAD" THEN "broad"
    ELSE IF match_type = "PHRASE" THEN "phrase"
    ELSE IF match_type = "EXACT" THEN "exact"
    ELSE "other"

\* The click rate and the cost per click a keyword table shows: the
\* provider's own figure of the row when it is non-zero, the quotient of the
\* row's counters otherwise.
KeywordCtr(row) ==
    IF row.ctr.num # 0 THEN FracMul(row.ctr, Whole(100))
    ELSE FracMul(safe_div(Whole(row.clicks), Whole(row.impressions)), Whole(100))

KeywordCpc(row) ==
    IF row.avg_cpc_micros # 0 THEN FromMicros(row.avg_cpc_micros)
    ELSE safe_div(FromMicros(row.cost_micros), Whole(row.clicks))

KeywordCpa(row) ==
    IF row.cpa_micros # 0 THEN FromMicros(row.cpa_micros)
    ELSE safe_div(FromMicros(row.cost_micros), FromHundredths(row.conversions))

\* _format_keyword_table: one table row per row of rows; cpa is "-" (<<>>)
\* when the row has no conversions.
format_keyword_table(rows) ==
    [i \in 1..Len(rows) |->
        LET row == rows[i]
        IN  [campaign |-> row.campaign,
             ad_group |-> row.ad_group,
             keyword |-> row.keyword,
             match_type |-> format_match_type(row.match_type),
             impressions |-> row.impressions,
             clicks |-> row.clicks,
             ctr |-> KeywordCtr(row),
             avg_cpc |-> KeywordCpc(row),
             cost |-> FromMicros(row.cost_micros),
             conversions |-> FromHundredths(row.conversions),
             conv_rate |-> FracMul(safe_div(FromHundredths(row.conversions),
                                            Whole(row.clicks)), Whole(100)),
             cpa |-> IF row.conversions # 0 THEN <<KeywordCpa(row)>> ELSE <<>>]]

\* _format_keyword_waste_table.
format_keyword_waste_table(rows) ==
    [i \in 1..Len(rows) |->
        LET row == rows[i]
        IN  [campaign |-> row.campaign,
             ad_group |-> row.ad_group,
             keyword |-> row.keyword,
             match_type |-> format_match_type(row.match_type),
             cost |-> FromMicros(row.cost_micros),
             clicks |-> row.clicks,
             ctr |-> KeywordCtr(row),
             avg_cpc |-> KeywordCpc(row)]]

\* [r for r in rows if r["conversions"] == 0 and r["cost_micros"] > 0].
wasted_keywords(rows) == SelectSeq(rows, IsWaste)

\* _get_ads_keyword_tables.
get_ads_keyword_tables(service, l7_start, l7_end, l30_start, l30_end) ==
    LET r7 == get_ads_keyword_rows(service, "keyword_7", l7_start, l7_end)
        r30 == get_ads_keyword_rows(service, "keyword_30", l30_start, l30_end)
        rows_7_sorted == Take(SortDescBy(<<>>, r7.rows, "cost_micros"), KeywordTableLimit)
        rows_30_sorted == Take(SortDescBy(<<>>, r30.rows, "cost_micros"), KeywordTableLimit)
        wasted_7_sorted ==
            Take(SortDescBy(<<>>, wasted_keywords(r7.rows), "cost_micros"), KeywordTableLimit)
    IN  IF r7.raised # "" \/ r30.raised # "" THEN [raised |-> "Exception"]
        ELSE [raised |-> "",
              last_7 |-> [start |-> isoformat(l7_start),
                          end |-> isoformat(l7_end),
                          top_cost |-> format_keyword_table(rows_7_sorted),
                          wasted |-> format_keyword_waste_table(wasted_7_sorted),
                          rows |-> r7.rows],
              last_30 |-> [start |-> isoformat(l30_start),
                           end |-> isoformat(l30_end),
                           top_cost |-> format_keyword_table(rows_30_sorted),
                           rows |-> r30.rows]]

\* The table part of _get_ads_search_term_waste: the 20 rows of highest
\* cost; cpa is "-" (<<>>) when the row has no conversions.
search_term_table(results) ==
    LET results_sorted == Take(SortDescBy(<<>>, results, "cost_micros"), KeywordTableLimit)
    IN  [i \in 1..Len(results_sorted) |->
            LET row == results_sorted[i]
            IN  [campaign |-> row.campaign,
                 ad_group |-> row.ad_group,
                 term |-> row.term,
                 clicks |-> row.clicks,
                 cost |-> FromMicros(row.cost_micros),
                 conversions |-> FromHundredths(row.conversions),
                 cpa |-> IF row.conversions # 0 THEN <<KeywordCpa(row)>> ELSE <<>>]]

\* _get_ads_search_term_waste: no query for an inverted range; otherwise
\* every row the provider returned is a result (the waste condition is part
\* of the query text only).
get_ads_search_term_waste(service, start, end) ==
    IF start > end
    THEN [raised |-> "", start |-> isoformat(start), end |-> isoformat(end),
          rows |-> <<>>, table |-> <<>>]
    ELSE LET answer == run_query(service, "search_term", "")
         IN  IF answer.raised # "" THEN [raised |-> "Exception"]
             ELSE [raised |-> "", start |-> isoformat(start), end |-> isoformat(end),
                   rows |-> answer.rows,
                   table |-> search_term_table(answer.rows)]

\* ------------------------------------------- the sections that may degrade
\* _get_ads_landing_page_stats: [] for an inverted range and when the query
\* fails (the exception is caught).
get_ads_landing_page_stats(service, start, end) ==
    IF start > end THEN <<>>
    ELSE LET answer == run_query(service, "landing_page", "")
         IN  IF answer.raised # "" THEN <<>> ELSE answer.rows

\* The device label of _get_device_stats (Korean labels written in ASCII).
DeviceLabel(device) ==
    IF device = "MOBILE" THEN "mobile"
    ELSE IF device = "DESKTOP" THEN "desktop"
    ELSE IF device = "TABLET" THEN "tablet"
    ELSE "other"

\* _get_device_stats.
get_device_stats(service, start, end) ==
    IF start > end THEN <<>>
    ELSE LET answer == run_query(service, "device", "")
         IN  IF answer.raised # "" THEN <<>>
             ELSE [i \in 1..Len(answer.rows) |->
                      [device |-> DeviceLabel(answer.rows[i].device),
                       conversions |-> answer.rows[i].conversions,
                       cost_micros |-> answer.rows[i].cost_micros]]

\* The seven weekday labels, Monday first (written in ASCII).
weekdays == <<"mon", "tue", "wed", "thu", "fri", "sat", "sun">>

\* The names the ads provider gives the seven days, in the same order.
DayNames ==
    <<"MONDAY", "TUESDAY", "WEDNESDAY", "THURSDAY", "FRIDAY", "SATURDAY", "SUNDAY">>

\* mapping.get(str(day_of_week)): None (<<>>) for a name that is no day.
WeekdayLabel(day_of_week) ==
    IF \E i \in 1..Len(DayNames) : DayNames[i] = day_of_week
    THEN <<weekdays[CHOOSE i \in 1..Len(DayNames) : DayNames[i] = day_of_week]>>
    ELSE <<>>

\* _get_weekday_conversions: a name that is no day gets the label "other".
get_weekday_conversions(service, start, end) ==
    IF start > end THEN <<>>
    ELSE LET answer == run_query(service, "weekday", "")
         IN  IF answer.raised # "" THEN <<>>
             ELSE [i \in 1..Len(answer.rows) |->
                      LET label == WeekdayLabel(answer.rows[i].day_of_week)
                      IN  [weekday |-> IF label = <<>> THEN "other" ELSE label[1],
                           conversions |-> answer.rows[i].conversions]]

\* The empty heatmap.
NoHeatmap == [labels |-> <<>>, matrix |-> <<>>]

\* sum of the conversions of the rows of one day and hour.
RECURSIVE CellSum(_, _, _)
CellSum(rows, day, hour) ==
    IF rows = <<>> THEN 0
    ELSE (IF WeekdayLabel(Head(rows).day_of_week) = <<day>> /\ Head(rows).hour = hour
          THEN Head(rows).conversions ELSE 0)
         + CellSum(Tail(rows), day, hour)

\* _get_hour_weekday_heatmap: matrix[day][hour] adds up the conversions of
\* the rows of that day and hour; rows of no day or of an hour outside
\* 0..23 are skipped.  The matrix is indexed from 1 (hour h is column h + 1).
get_hour_weekday_heatmap(service, start, end) ==
    IF start > end THEN NoHeatmap
    ELSE LET answer == run_query(service, "heatmap", "")
         IN  IF answer.raised # "" THEN NoHeatmap
             ELSE [labels |-> weekdays,
                   matrix |-> [d \in 1..Len(weekdays) |->
                                  [h \in 1..24 |-> CellSum(answer.rows, weekdays[d], h - 1)]]]

\* ------------------------------------------------------------- _get_geo_map
\* Countries kept in top10.
GeoLimit == 10

\* The value collect_all_data uses when the last-7 window is empty, and
\* _get_geo_map for an inverted range.
NoGeoMap(start, end) ==
    [raised |-> "", has_data |-> FALSE, rows |-> <<>>,
     start |-> isoformat(start), end |-> isoformat(end),
     total_active |-> 0, top10 |-> <<>>]

\* _get_geo_map: rows without a country are skipped, the rest is sorted by
\* active users.
get_geo_map(service, start, end) ==
    IF start > end THEN NoGeoMap(start, end)
    ELSE LET answer == run_report(service, "geo")
             data_rows == SelectSeq(answer.rows, LAMBDA r : r.country # "")
             sorted == SortDescBy(<<>>, data_rows, "activeUsers")
         IN  IF answer.raised # "" THEN [raised |-> "Exception"]
             ELSE [raised |-> "", has_data |-> data_rows # <<>>, rows |-> sorted,
                   start |-> isoformat(start), end |-> isoformat(end),
                   total_active |-> SumRows(data_rows, "activeUsers"),
                   top10 |-> Take(sorted, GeoLimit)]

\* ----------------------------------------------- _get_conversion_definitions
\* Rows kept by the conversion-action performance table.
ConversionLimit == 20

\* One iteration of the grouping loop over the conversion rows: rows without
\* an action name are skipped.
ConversionAddRow(groups, row) ==
    IF row.name = "" THEN groups
    ELSE LET known == \E i \in 1..Len(groups) : groups[i].name = row.name
             base == IF known THEN groups
                     ELSE Append(groups, [name |-> row.name, conversions |-> 0])
             at == CHOOSE i \in 1..Len(base) : base[i].name = row.name
         IN  [base EXCEPT ![at].conversions = @ + row.conversions]

RECURSIVE ConversionAddRows(_, _)
ConversionAddRows(groups, rows) ==
    IF rows = <<>> THEN groups
    ELSE ConversionAddRows(ConversionAddRow(groups, Head(rows)), Tail(rows))

\* _get_conversion_definitions: the enabled actions, then the conversions by
\* action (a query with a fallback).
get_conversion_definitions(service) ==
    LET actions == run_query(service, "conversion_action", "")
        conversions == run_query(service, "conversion_rows", "conversion_rows_fallback")
        conv_rows == SortDescBy(<<>>, ConversionAddRows(<<>>, conversions.rows), "conversions")
    IN  IF actions.raised # "" \/ conversions.raised # "" THEN [raised |-> "Exception"]
        ELSE [raised |-> "",
              actions |-> actions.rows,
              performance |-> Take(conv_rows, ConversionLimit)]

\* ------------------------------------------------------ the wasted summary
\* Items named by the wasted summary.
TopItemsLimit == 3

\* item.get("term") or item.get("keyword") or the fixed label.
ItemLabel(item) ==
    IF "term" \in DOMAIN item /\ item.term # "" THEN item.term
    ELSE IF "keyword" \in DOMAIN item /\ item.keyword # "" THEN item.keyword
    ELSE "wasted item"

\* _build_wasted_summary: the search-term rows when there are any, the
\* waste keywords of the last 7 days otherwise, by descending cost.
build_wasted_summary(l7, ads_daily, keyword_tables, search_terms) ==
    LET total_cost == IF l7 # <<>> THEN SumOver(ads_daily, l7, "cost") ELSE 0
        from_terms == search_terms.rows # <<>>
        wasted_items ==
            IF from_terms THEN SortDescBy(<<>>, search_terms.rows, "cost_micros")
            ELSE SortDescBy(<<>>, wasted_keywords(keyword_tables.last_7.rows), "cost_micros")
        wasted_cost == SumRows(wasted_items, "cost_micros")
        top == Take(wasted_items, TopItemsLimit)
    IN  [start |-> search_terms.start,
         end |-> search_terms.end,
         total_cost |-> FromMicros(total_cost),
         wasted_cost |-> FromMicros(wasted_cost),
         wasted_share |-> IF total_cost # 0
                          THEN FracMul(safe_div(FromMicros(wasted_cost),
                                                FromMicros(total_cost)), Whole(100))
                          ELSE Whole(0),
         source |-> IF from_terms THEN "search_term" ELSE "keyword",
         top_items |-> [i \in 1..Len(top) |-> short_label(ItemLabel(top[i]))],
         top_sum |-> FromMicros(SumRows(top, "cost_micros")),
         top_count |-> Len(top)]

\* _build_today_line: today's ads conversions and cost and the first top
\* item (or the fixed text when there is none).
build_today_line(today_key, ads_daily, wasted_summary) ==
    LET today_ads == Lookup(ads_daily, today_key, ZeroAds)
    IN  [conversions |-> FromHundredths(today_ads.conversions),
         cost |-> FromMicros(today_ads.cost),
         top_item |-> IF wasted_summary.top_items # <<>>
                      THEN wasted_summary.top_items[1] ELSE "no wasted item"]

\* The (keyword, cpa) pairs of the keywords with conversions, by ascending
\* cpa.
best_keywords(rows) ==
    LET converting == SelectSeq(rows, LAMBDA r : r.conversions > 0)
        pairs == [i \in 1..Len(converting) |->
                     [keyword |-> converting[i].keyword,
                      cpa |-> safe_div(FromMicros(converting[i].cost_micros),
                                       FromHundredths(converting[i].conversions))]]
    IN  SortAscByCpa(<<>>, pairs)

\* wasted_items of _build_action_cards and of _build_executive_summary: the
\* search-term rows when there are any, the waste keywords otherwise, in
\* the order of the provider.
pause_items(keyword_tables, search_terms) ==
    LET wasted_items == IF search_terms.rows # <<>> THEN search_terms.rows
                        ELSE wasted_keywords(keyword_tables.last_7.rows)
        top == Take(wasted_items, TopItemsLimit)
    IN  [i \in 1..Len(top) |-> short_label(ItemLabel(top[i]))]

\* _build_action_cards: the three candidate lists.
build_action_cards(keyword_tables, search_terms) ==
    LET terms == Take(search_terms.rows, TopItemsLimit)
        best == Take(best_keywords(keyword_tables.last_7.rows), TopItemsLimit)
    IN  [pause_candidates |-> pause_items(keyword_tables, search_terms),
         negative_candidates |-> [i \in 1..Len(terms) |-> short_label(terms[i].term)],
         budget_candidates |-> [i \in 1..Len(best) |->
                                   [keyword |-> short_label(best[i].keyword),
                                    cpa |-> best[i].cpa]]]

\* ------------------------------------------------ the week-over-week texts
\* (current - prev) / prev * 100, prev # 0.
PercentChange(current, prev) ==
    FracMul(Divide(FracSub(current, prev), prev), Whole(100))

\* delta_pct of _build_ai_summary: None (<<>>) when prev <= 0.
ai_delta_pct(current, prev) ==
    IF prev.num <= 0 THEN <<>> ELSE <<PercentChange(current, prev)>>

\* trend_text of _build_ai_summary: the value, and either the "no comparison"
\* note or abs(delta), printed with one decimal, and the direction word.
trend_text(current, prev) ==
    LET delta == ai_delta_pct(current, prev)
    IN  IF delta = <<>> THEN [current |-> current, comparison |-> "none"]
        ELSE [current |-> current,
              comparison |-> IF delta[1].num >= 0 THEN "increase" ELSE "decrease",
              percent |-> FracAbs(delta[1]),
              digits |-> 1]

\* The window sums of the texts: 0 for an empty window.
WindowSum(daily, dates, field) ==
    IF dates # <<>> THEN SumOver(daily, dates, field) ELSE 0

\* _build_ai_summary: the four trends of the summary text and the five of
\* the insights.
build_ai_summary(ga4_daily, ads_daily, l7, p7, top_landing, top_campaign) ==
    LET last_sessions == Whole(WindowSum(ga4_daily, l7, "sessions"))
        prev_sessions == Whole(WindowSum(ga4_daily, p7, "sessions"))
        last_active == Whole(WindowSum(ga4_daily, l7, "activeUsers"))
        prev_active == Whole(WindowSum(ga4_daily, p7, "activeUsers"))
        last_cost == FromMicros(WindowSum(ads_daily, l7, "cost"))
        prev_cost == FromMicros(WindowSum(ads_daily, p7, "cost"))
        last_conv == FromHundredths(WindowSum(ads_daily, l7, "conversions"))
        prev_conv == FromHundredths(WindowSum(ads_daily, p7, "conversions"))
        last_clicks == Whole(WindowSum(ads_daily, l7, "clicks"))
        prev_clicks == Whole(WindowSum(ads_daily, p7, "clicks"))
        last_impr == Whole(WindowSum(ads_daily, l7, "impressions"))
        prev_impr == Whole(WindowSum(ads_daily, p7, "impressions"))
        last_ctr == FracMul(safe_div(last_clicks, last_impr), Whole(100))
        prev_ctr == FracMul(safe_div(prev_clicks, prev_impr), Whole(100))
        last_cpc == safe_div(last_cost, last_clicks)
        prev_cpc == safe_div(prev_cost, prev_clicks)
        last_cpa == safe_div(last_cost, last_conv)
        prev_cpa == safe_div(prev_cost, prev_conv)
    IN  [text |-> <<trend_text(last_sessions, prev_sessions),
                    trend_text(last_active, prev_active),
                    trend_text(last_cost, prev_cost),
                    trend_text(last_conv, prev_conv)>>,
         insights |-> <<trend_text(last_sessions, prev_sessions),
                        trend_text(last_active, prev_active),
                        trend_text(last_ctr, prev_ctr),
                        trend_text(last_cpc, prev_cpc),
                        trend_text(last_cpa, prev_cpa)>>,
         top_landing |-> top_landing,
         top_campaign |-> top_campaign]

\* delta_pct of _build_executive_summary: "n/a" when prev <= 0, otherwise
\* the signed delta, printed with no decimals behind a "+" when it is not
\* negative.
exec_delta_pct(current, prev) ==
    IF prev.num <= 0 THEN [text |-> "n/a"]
    ELSE LET delta == PercentChange(current, prev)
         IN  [text |-> "percent",
              sign |-> IF delta.num >= 0 THEN "+" ELSE "",
              percent |-> delta,
              digits |-> 0]

\* The five (current, previous) pairs of the executive summary and of the
\* week scoreboard: sessions, active users, cost, conversions, cost per
\* conversion.
WeekPairs(ga4_daily, ads_daily, l7, p7) ==
    LET last_cost == FromMicros(WindowSum(ads_daily, l7, "cost"))
        prev_cost == FromMicros(WindowSum(ads_daily, p7, "cost"))
        last_conv == FromHundredths(WindowSum(ads_daily, l7, "conversions"))
        prev_conv == FromHundredths(WindowSum(ads_daily, p7, "conversions"))
    IN  <<<<Whole(WindowSum(ga4_daily, l7, "sessions")),
            Whole(WindowSum(ga4_daily, p7, "sessions"))>>,
          <<Whole(WindowSum(ga4_daily, l7, "activeUsers")),
            Whole(WindowSum(ga4_daily, p7, "activeUsers"))>>,
          <<last_cost, prev_cost>>,
          <<last_conv, prev_conv>>,
          <<safe_div(last_cost, last_conv), safe_div(prev_cost, prev_conv)>>>>

\* _build_executive_summary: the five changes, the number of wasted items
\* and the pause candidates.
build_executive_summary(l7, p7, ga4_daily, ads_daily, wasted_summary, keyword_tables, search_terms) ==
    LET pairs == WeekPairs(ga4_daily, ads_daily, l7, p7)
    IN  [range |-> IF l7 = <<>> THEN <<>> ELSE <<l7[1], l7[Len(l7)]>>,
         changes |-> [i \in 1..Len(pairs) |-> exec_delta_pct(pairs[i][1], pairs[i][2])],
         wasted_count |-> wasted_summary.top_count,
         pause_items |-> pause_items(keyword_tables, search_terms)]

\* ------------------------------------------------- _build_extra_chart_specs
\* Bars of a "top 10" chart.
ChartLimit == 10

\* A dict with no key.
EmptyDict == [k \in {} |-> 0]

\* One bar of the week scoreboard: 0 when previous == 0.
scoreboard_delta(current, previous) ==
    IF previous.num = 0 THEN Whole(0) ELSE PercentChange(current, previous)

\* Mutant of growth_landing_rows: every landing page is kept.
growth_landing_rows_unfiltered(landing_page_stats) ==
    SortDescBy(<<>>, landing_page_stats, "conversions")

\* The landing pages of the growth chart: those with conversions and cost,
\* by descending conversions.
growth_landing_rows(landing_page_stats) ==
    SortDescBy(<<>>,
               SelectSeq(landing_page_stats,
                         LAMBDA r : r.conversions > 0 /\ r.cost_micros > 0),
               "conversions")

\* One iteration of the grouping loop over the device rows.
DeviceAddRow(device_map, row) ==
    LET known == \E i \in 1..Len(device_map) : device_map[i].device = row.device
        base == IF known THEN device_map
                ELSE Append(device_map,
                            [device |-> row.device, conversions |-> 0, cost_micros |-> 0])
        at == CHOOSE i \in 1..Len(base) : base[i].device = row.device
    IN  [base EXCEPT ![at].conversions = @ + row.conversions,
                     ![at].cost_micros = @ + row.cost_micros]

RECURSIVE DeviceAddRows(_, _)
DeviceAddRows(device_map, rows) ==
    IF rows = <<>> THEN device_map
    ELSE DeviceAddRows(DeviceAddRow(device_map, Head(rows)), Tail(rows))

\* {row["weekday"]: row["conversions"] for row in weekday_stats}.get(day, 0):
\* the conversions of the last row of the day, 0 when there is none.
WeekdayValue(weekday_stats, day) ==
    LET at == {i \in 1..Len(weekday_stats) : weekday_stats[i].weekday = day}
    IN  IF at = {} THEN 0
        ELSE weekday_stats[CHOOSE i \in at : \A j \in at : j <= i].conversions

\* sum(sum(row) for row in matrix).
MatrixTotal(matrix) ==
    LET RowTotal(row) == SumRows([h \in 1..Len(row) |-> [v |-> row[h]]], "v")
    IN  SumRows([d \in 1..Len(matrix) |-> [v |-> RowTotal(matrix[d])]], "v")

\* _build_extra_chart_specs: the dict of the charts that have data.  A chart
\* is the record of its labels and values; raised is the exception of the
\* first division by zero, if any.
build_extra_chart_specs(ga4_daily, ads_daily, l7, p7, keyword_tables, search_terms, geo_map, landing_page_stats, device_stats, weekday_stats, heatmap_stats) ==
    LET pairs == WeekPairs(ga4_daily, ads_daily, l7, p7)
        waste_kw == Take(SortDescBy(<<>>, wasted_keywords(keyword_tables.last_7.rows),
                                    "cost_micros"), ChartLimit)
        waste_q == Take(SortDescBy(<<>>, search_terms.rows, "cost_micros"), ChartLimit)
        best == Take(best_keywords(keyword_tables.last_7.rows), ChartLimit)
        landing == Take(growth_landing_rows(landing_page_stats), ChartLimit)
        landing_cpa == [i \in 1..Len(landing) |->
                           Divide(FromMicros(landing[i].cost_micros),
                                  FromHundredths(landing[i].conversions))]
        device_map == DeviceAddRows(<<>>, device_stats)
        specs ==
            (IF l7 # <<>> /\ p7 # <<>>
             THEN "week_scoreboard" :>
                      [values |-> [i \in 1..Len(pairs) |->
                                      scoreboard_delta(pairs[i][1], pairs[i][2])]]
             ELSE EmptyDict)
            @@ (IF geo_map.top10 # <<>>
                THEN "countries_top10" :>
                         [labels |-> [i \in 1..Len(geo_map.top10) |-> geo_map.top10[i].country],
                          values |-> [i \in 1..Len(geo_map.top10) |->
                                         geo_map.top10[i].activeUsers]]
                ELSE EmptyDict)
            @@ (IF waste_kw # <<>>
                THEN "waste_keywords_top10" :>
                         [labels |-> [i \in 1..Len(waste_kw) |-> short_label(waste_kw[i].keyword)],
                          values |-> [i \in 1..Len(waste_kw) |->
                                         FromMicros(waste_kw[i].cost_micros)]]
                ELSE EmptyDict)
            @@ (IF waste_q # <<>>
                THEN "waste_queries_top10" :>
                         [labels |-> [i \in 1..Len(waste_q) |-> short_label(waste_q[i].term)],
                          values |-> [i \in 1..Len(waste_q) |->
                                         FromMicros(waste_q[i].cost_micros)]]
                ELSE EmptyDict)
            @@ (IF best # <<>>
                THEN "growth_keywords_cpa_top10" :>
                         [labels |-> [i \in 1..Len(best) |-> short_label(best[i].keyword)],
                          values |-> [i \in 1..Len(best) |-> best[i].cpa]]
                ELSE EmptyDict)
            @@ (IF landing # <<>>
                THEN "growth_landing_cpa_top10" :>
                         [labels |-> [i \in 1..Len(landing) |-> short_label(landing[i].url)],
                          values_left |-> [i \in 1..Len(landing) |->
                                              FromHundredths(landing[i].conversions)],
                          values_right |-> landing_cpa]
                ELSE EmptyDict)
            @@ (IF device_stats # <<>>
                THEN "device_cpa_compare" :>
                         [labels |-> [i \in 1..Len(device_map) |-> device_map[i].device],
                          values_left |-> [i \in 1..Len(device_map) |->
                                              FromHundredths(device_map[i].conversions)],
                          values_right |-> [i \in 1..Len(device_map) |->
                                               safe_div(FromMicros(device_map[i].cost_micros),
                                                        FromHundredths(device_map[i].conversions))]]
                ELSE EmptyDict)
            @@ (IF weekday_stats # <<>>
                THEN "weekday_conversions" :>
                         [labels |-> weekdays,
                          values |-> [i \in 1..Len(weekdays) |->
                                         WeekdayValue(weekday_stats, weekdays[i])]]
                ELSE EmptyDict)
            @@ (IF heatmap_stats.matrix # <<>> /\ MatrixTotal(heatmap_stats.matrix) > 0
                THEN "hour_weekday_heatmap" :>
                         [labels |-> heatmap_stats.labels, matrix |-> heatmap_stats.matrix]
                ELSE EmptyDict)
    IN  IF \E i \in 1..Len(landing_cpa) : landing_cpa[i] = ZeroDivisionError
        THEN [raised |-> "ZeroDivisionError"]
        ELSE [raised |-> "", specs |-> specs]

\* _build_chart_data: the six series over the last 30 days; both maps are
\* indexed with every date, and a date that is no key raises KeyError.
build_chart_data(ga4_daily, ads_daily, dates, ga4_has_data, ads_has_data) ==
    IF \E i \in 1..Len(dates) :
           dates[i] \notin DOMAIN ga4_daily \/ dates[i] \notin DOMAIN ads_daily
    THEN [raised |-> "KeyError"]
    ELSE
        [raised |-> "",
         ga4_sessions_30d |->
             [values |-> [i \in 1..Len(dates) |-> Whole(ga4_daily[dates[i]].sessions)],
              has_data |-> ga4_has_data, dates |-> dates],
         ga4_active_users_30d |->
             [values |-> [i \in 1..Len(dates) |-> Whole(ga4_daily[dates[i]].activeUsers)],
              has_data |-> ga4_has_data, dates |-> dates],
         ads_cost_30d |->
             [values |-> [i \in 1..Len(dates) |-> FromMicros(ads_daily[dates[i]].cost)],
              has_data |-> ads_has_data, dates |-> dates],
         ads_conversions_30d |->
             [values |-> [i \in 1..Len(dates) |-> FromHundredths(ads_daily[dates[i]].conversions)],
              has_data |-> ads_has_data, dates |-> dates],
         ads_ctr_30d |->
             [values |-> [i \in 1..Len(dates) |->
                             FracMul(safe_div(Whole(ads_daily[dates[i]].clicks),
                                              Whole(ads_daily[dates[i]].impressions)),
                                     Whole(100))],
              has_data |-> ads_has_data, dates |-> dates],
         ads_cpc_30d |->
             [values |-> [i \in 1..Len(dates) |->
                             safe_div(FromMicros(ads_daily[dates[i]].cost),
                                      Whole(ads_daily[dates[i]].clicks))],
              has_data |-> ads_has_data, dates |-> dates]]

\* ------------------------------------------------------ collect_all_data
\* The names of the queries of one run of collect_all_data.
QueryNames ==
    {"ga4_daily", "ads_daily", "ads_daily_fallback", "ga4_landing", "ga4_source",
     "campaign", "geo", "keyword_7", "keyword_30", "search_term",
     "conversion_action", "conversion_rows", "conversion_rows_fallback",
     "landing_page", "device", "weekday", "heatmap"}

\* A service that answers no rows to every query.
QuietService == [q \in QueryNames |-> Answer(<<>>)]

\* The rows of the two daily series, as the two clients return them.
DailyGa4Reply(service) == run_report(service, "ga4_daily")

DailyAdsReply(service) == run_query(service, "ads_daily", "ads_daily_fallback")

\* What collect_all_data builds from the answers of the providers; raised
\* names the exception that ends the method, if any does.
CollectedReport(start, end, service) ==
    LET g == DailyGa4Reply(service)
        a == DailyAdsReply(service)
        ga == get_ga4_daily_series(g.rows, all_dates(start, end))
        ad == get_ads_daily_series(a.rows, all_dates(start, end))
        l7 == last_7_dates(start, end)
        p7 == prev_7_dates(start, end)
        summary == build_summary(ga.data, ad.data, l7, p7,
                                 last_30_complete_dates(start, end),
                                 prev_30_dates(start, end),
                                 all_dates(start, end),
                                 ad.has_conv_value, isoformat(end))
        tables == build_tables(service)
        geo_map == IF l7 # <<>>
                   THEN get_geo_map(service, last_7_start(start, end), last_7_end(end))
                   ELSE NoGeoMap(last_7_start(start, end), last_7_end(end))
        keyword_tables ==
            get_ads_keyword_tables(service,
                                   last_7_start(start, end), last_7_end(end),
                                   last_30_complete_start(start, end), last_30_end(end))
        search_terms ==
            get_ads_search_term_waste(service, last_7_start(start, end), last_7_end(end))
        conversion_definitions == get_conversion_definitions(service)
        critical == <<g, a, summary, tables, geo_map, keyword_tables, search_terms,
                      conversion_definitions>>
        landing_page_stats ==
            get_ads_landing_page_stats(service, last_7_start(start, end), last_7_end(end))
        device_stats == get_device_stats(service, last_7_start(start, end), last_7_end(end))
        weekday_stats ==
            get_weekday_conversions(service, last_7_start(start, end), last_7_end(end))
        heatmap_stats ==
            get_hour_weekday_heatmap(service, last_7_start(start, end), last_7_end(end))
    IN  IF \E i \in 1..Len(critical) : critical[i].raised # ""
        THEN [raised |->
                  critical[CHOOSE i \in 1..Len(critical) :
                               /\ critical[i].raised # ""
                               /\ \A j \in 1..(i - 1) : critical[j].raised = ""].raised]
        ELSE LET wasted_summary ==
                     build_wasted_summary(l7, ad.data, keyword_tables, search_terms)
                 extra_chart_specs ==
                     build_extra_chart_specs(ga.data, ad.data, l7, p7, keyword_tables,
                                             search_terms, geo_map, landing_page_stats,
                                             device_stats, weekday_stats, heatmap_stats)
                 charts == build_chart_data(ga.data, ad.data, last_30_dates(start, end),
                                            ga.has_data, ad.has_data)
             IN  IF extra_chart_specs.raised # ""
                 THEN [raised |-> extra_chart_specs.raised]
                 ELSE IF charts.raised # ""
                 THEN [raised |-> charts.raised]
                 ELSE [raised |-> "",
                       all_dates |-> all_dates(start, end),
                       last_30_dates |-> last_30_dates(start, end),
                       last_7_dates |-> l7,
                       prev_7_dates |-> p7,
                       last_30_complete_dates |-> last_30_complete_dates(start, end),
                       prev_30_dates |-> prev_30_dates(start, end),
                       ga4_daily |-> ga.data,
                       ga4_has_data |-> ga.has_data,
                       ads_daily |-> ad.data,
                       ads_has_data |-> ad.has_data,
                       has_conv_value |-> ad.has_conv_value,
                       summary |-> summary,
                       tables |-> tables,
                       charts |-> charts,
                       ai_summary |-> build_ai_summary(ga.data, ad.data, l7, p7,
                                                       tables.top_landing,
                                                       tables.top_campaign),
                       geo_map |-> geo_map,
                       keyword_tables |-> keyword_tables,
                       search_terms |-> search_terms,
                       wasted_summary |-> wasted_summary,
                       conversion_definitions |-> conversion_definitions,
                       exec_summary |->
                           build_executive_summary(l7, p7, ga.data, ad.data,
                                                   wasted_summary, keyword_tables,
                                                   search_terms),
                       today_line |-> build_today_line(isoformat(end), ad.data,
                                                       wasted_summary),
                       action_cards |-> build_action_cards(keyword_tables, search_terms),
                       landing_page_stats |-> landing_page_stats,
                       device_stats |-> device_stats,
                       weekday_stats |-> weekday_stats,
                       heatmap_stats |-> heatmap_stats,
                       extra_chart_specs |-> extra_chart_specs.specs]

\* ---------------------------------------------------- the queries of a run
\* One provider call site of collect_all_data: the searches it sent (none
\* when its range guard returned early), the date range they carry (<<>>
\* for a query without one) and whether the call ended the run.
CallSite(issued, range, fatal) == [issued |-> issued, range |-> range, fatal |-> fatal]

\* The range 'start' .. 'end' a query text or request carries.
DateRange(start, end) == <<isoformat(start), isoformat(end)>>

\* self.ga4.run_report(...) outside any try.
Ga4Site(service, query, start, end) ==
    CallSite(<<query>>, DateRange(start, end), run_report(service, query).raised # "")

\* self.ads.run_query(...) outside any try.
AdsSite(service, query, fallback_query, range) ==
    LET answer == run_query(service, query, fallback_query)
    IN  CallSite(answer.issued, range, answer.raised # "")

\* A site behind "if start_date > end_date: return ..." sends nothing for
\* an inverted range.
Guarded(site, start, end) ==
    IF start > end THEN CallSite(<<>>, <<>>, FALSE) ELSE site

\* self.ads.run_query(...) inside try/except: a failure is swallowed.
CaughtSite(service, query, range) == CallSite(<<query>>, range, FALSE)

\* The records of the searches sent at the sites, up to and including the
\* site whose failure ended the run.
RECURSIVE SentUntilFailure(_)
SentUntilFailure(sites) ==
    IF sites = <<>> THEN <<>>
    ELSE LET site == Head(sites)
             sent == [i \in 1..Len(site.issued) |->
                         [query |-> site.issued[i], range |-> site.range]]
         IN  sent \o (IF site.fatal THEN <<>> ELSE SentUntilFailure(Tail(sites)))

\* The provider calls of collect_all_data in the order of the method: the
\* two daily series, the tables, the geo map, the keyword tables, the
\* search terms, the conversion definitions and the four optional
\* sections.  (The builders between them send nothing; _build_summary
\* cannot raise here, every window being a sub-range of all_dates.)
IssuedQueries(start, end, service) ==
    LET l7s == last_7_start(start, end)
        l7e == last_7_end(end)
        l30s == last_30_start(start, end)
        l30cs == last_30_complete_start(start, end)
        l30e == last_30_end(end)
        last7 == DateRange(l7s, l7e)
    IN  SentUntilFailure(
            <<Ga4Site(service, "ga4_daily", start, end),
              AdsSite(service, "ads_daily", "ads_daily_fallback", DateRange(start, end)),
              Ga4Site(service, "ga4_landing", l30s, end),
              Ga4Site(service, "ga4_source", l30s, end),
              AdsSite(service, "campaign", "", DateRange(l30s, end)),
              IF last_7_dates(start, end) # <<>>
              THEN Guarded(Ga4Site(service, "geo", l7s, l7e), l7s, l7e)
              ELSE CallSite(<<>>, <<>>, FALSE),
              Guarded(AdsSite(service, "keyword_7", "", last7), l7s, l7e),
              Guarded(AdsSite(service, "keyword_30", "", DateRange(l30cs, l30e)), l30cs, l30e),
              Guarded(AdsSite(service, "search_term", "", last7), l7s, l7e),
              AdsSite(service, "conversion_action", "", <<>>),
              AdsSite(service, "conversion_rows", "conversion_rows_fallback",
                      DateRange(l30cs, l30e)),
              Guarded(CaughtSite(service, "landing_page", last7), l7s, l7e),
              Guarded(CaughtSite(service, "device", last7), l7s, l7e),
              Guarded(CaughtSite(service, "weekday", last7), l7s, l7e),
              Guarded(CaughtSite(service, "heatmap", last7), l7s, l7e)>>)

\* ReportGenerator.collect_all_data; Services is the set of answers the two
\* providers may give this run.  The method returns the report ("collected")
\* or ends with the exception of a call it does not guard ("failed").
collect_all_data(Services) ==
    /\ pc = "constructed"
    /\ LET start == strptime(start_date)
           end == strptime(end_date)
       IN  \E service \in Services :
               /\ replies' = service
               /\ ga4_rows' = DailyGa4Reply(service).rows
               /\ ads_rows' = DailyAdsReply(service).rows
               /\ report' = CollectedReport(start, end, service)
               /\ queries' = queries \o IssuedQueries(start, end, service)
               /\ pc' = IF report'.raised = "" THEN "collected" ELSE "failed"
    /\ UNCHANGED <<start_date, end_date, krVars, callVars, env, clients, files>>

\* ReportGenerator.__init__ with start <= end, both days in Days.
InitDashboard(Days) ==
    /\ pc = "constructed"
    /\ \E s \in Days, e \in Days :
           /\ s <= e
           /\ start_date = isoformat(s)
           /\ end_date = isoformat(e)
    /\ replies = <<>>
    /\ ga4_rows = <<>>
    /\ ads_rows = <<>>
    /\ report = <<>>

KrIdle == kr_pc = "idle" /\ kr_replies = <<>> /\ kr_data = <<>>

\* No helper is under direct call.
NoCall == call = "none" /\ args = <<>> /\ result = <<>>

\* Both identifiers are configured and ReportGenerator.__init__ has built
\* the two clients; nothing was sent or written yet.
FullEnv == [PROPERTY_ID |-> "properties-1", CUSTOMER_ID |-> "customer-1"]

Configured ==
    /\ env = FullEnv
    /\ clients = {"ga4", "ads"}
    /\ queries = <<>>
    /\ files = <<>>

\* ------------------------------------------- specification of the windows
\* The providers answer with nothing, or with one row for every day asked.
DenseGa4Rows(start, end) ==
    [i \in 1..((end - start) + 1) |->
        [date |-> Ga4Text(start + (i - 1)),
         sessions |-> 1 + ((start + i) % 3),
         activeUsers |-> 1 + ((start + i) % 2)]]

DenseAdsRows(start, end) ==
    [i \in 1..((end - start) + 1) |->
        [date |-> isoformat(start + (i - 1)),
         cost_micros |-> 1000000 * (1 + ((start + i) % 4)),
         impressions |-> 10 + ((start + i) % 5),
         clicks |-> (start + i) % 3,
         conversions |-> 50 * ((start + i) % 2),
         conversions_value |-> <<(start + i) % 7>>]]

\* The daily answers g and a, every other query answered with no rows.
DailyService(g, a) ==
    [QuietService EXCEPT !["ga4_daily"] = Answer(g), !["ads_daily"] = Answer(a)]

WindowResponses(start, end) ==
    {DailyService(g, a) : g \in {<<>>, DenseGa4Rows(start, end)},
                          a \in {<<>>, DenseAdsRows(start, end)}}

InitWindows == InitDashboard(0..MaxDay) /\ KrIdle /\ NoCall /\ Configured

NextWindows ==
    collect_all_data(WindowResponses(strptime(start_date), strptime(end_date)))

SpecWindows == InitWindows /\ [][NextWindows]_vars

\* ======================================================= Korean report
\* TARGET_COUNTRIES.
TARGET_COUNTRIES ==
    {"United States", "Canada", "United Kingdom", "Germany", "France", "Italy",
     "Spain", "Netherlands", "Belgium", "Australia", "Japan", "Singapore",
     "United Arab Emirates", "South Korea"}

\* The keys of COUNTRY_KR among the countries the model draws.
COUNTRY_KR_KEYS ==
    TARGET_COUNTRIES \cup {"Nepal", "India", "Philippines", "Nigeria", "China"}

\* COUNTRY_KR.get(country, country): the Korean name of a listed country,
\* the name itself otherwise.  A name is a record [lang, of].
country_kr(country) ==
    IF country \in COUNTRY_KR_KEYS THEN [lang |-> "ko", of |-> country]
    ELSE [lang |-> "en", of |-> country]

\* round(n / d) to the nearest integer, d > 0, n >= 0.  At a decimal tie the
\* double lies on one side of it or the other: tie ("down" | "up") is the
\* side.
RoundDiv(n, d, tie) ==
    LET q == n \div d
        r == n % d
    IN  IF 2 * r < d THEN q
        ELSE IF 2 * r > d THEN q + 1
        ELSE IF tie = "up" THEN q + 1 ELSE q

\* Mutant of get_summary_data: the cost per conversion is taken over the
\* conversions the ads source reports.
get_summary_data_cpa_by_ads(rows, ads_result, tie) ==
    LET sessions == SumRows(rows, "sessions")
        conversions == SumRows(rows, "conversions")
        users == SumRows(rows, "totalUsers")
        total_cost == SumRows(ads_result, "cost_micros")
        total_clicks == SumRows(ads_result, "clicks")
        total_impressions == SumRows(ads_result, "impressions")
        ads_conversions == SumRows(ads_result, "conversions")
    IN  [sessions |-> sessions,
         users |-> users,
         conversions |-> conversions,
         cvr |-> IF sessions > 0 THEN RoundDiv(conversions * 10000, sessions, tie) ELSE 0,
         total_cost |-> RoundDiv(total_cost, 1000, tie),
         total_clicks |-> total_clicks,
         total_impressions |-> total_impressions,
         ads_conversions |-> RoundDiv(ads_conversions, 10, tie),
         cpa |-> IF ads_conversions > 0
                 THEN RoundDiv(total_cost, 10 * ads_conversions, tie) ELSE 0,
         ctr |-> IF total_impressions > 0
                 THEN RoundDiv(total_clicks * 10000, total_impressions, tie) ELSE 0]

\* _get_summary_data.  cvr and ctr are in hundredths of a percent (two
\* decimals), ads_conversions in tenths (one decimal), total_cost and cpa
\* in whole currency units.  The analytics conversion counts are whole
\* numbers, which int(conversions) leaves as they are; the ads rows carry
\* conversions in hundredths.  The cost_micros of a summary row is counted
\* in thousands of micros (1000 to the currency unit), so that a spend of
\* millions of currency units stays within 32-bit integers.
get_summary_data(rows, ads_result, tie) ==
    LET sessions == SumRows(rows, "sessions")
        conversions == SumRows(rows, "conversions")
        users == SumRows(rows, "totalUsers")
        total_cost == SumRows(ads_result, "cost_micros")
        total_clicks == SumRows(ads_result, "clicks")
        total_impressions == SumRows(ads_result, "impressions")
        ads_conversions == SumRows(ads_result, "conversions")
    IN  [sessions |-> sessions,
         users |-> users,
         conversions |-> conversions,
         cvr |-> IF sessions > 0 THEN RoundDiv(conversions * 10000, sessions, tie) ELSE 0,
         total_cost |-> RoundDiv(total_cost, 1000, tie),
         total_clicks |-> total_clicks,
         total_impressions |-> total_impressions,
         ads_conversions |-> RoundDiv(ads_conversions, 10, tie),
         cpa |-> IF conversions > 0
                 THEN RoundDiv(total_cost, 1000 * conversions, tie) ELSE 0,
         ctr |-> IF total_impressions > 0
                 THEN RoundDiv(total_clicks * 10000, total_impressions, tie) ELSE 0]

\* rows.sort(key=lambda x: x["conversions"], reverse=True): a stable sort,
\* rows of equal conversions keep their order.
InsertDesc(sorted, r) ==
    LET k == Cardinality({i \in 1..Len(sorted) : sorted[i].conversions >= r.conversions})
    IN  SubSeq(sorted, 1, k) \o <<r>> \o SubSeq(sorted, k + 1, Len(sorted))

RECURSIVE SortDesc(_, _)
SortDesc(sorted, rows) ==
    IF rows = <<>> THEN sorted
    ELSE SortDesc(InsertDesc(sorted, Head(rows)), Tail(rows))

\* _get_geo_data.  cvr is in hundredths of a percent, pct and target_pct in
\* tenths of a percent.
get_geo_data(country_rows, city_rows, tie) ==
    LET total_conv == SumRows(country_rows, "conversions")
        with_rates ==
            [i \in 1..Len(country_rows) |->
                LET r == country_rows[i]
                IN  [country |-> r.country, sessions |-> r.sessions,
                     conversions |-> r.conversions,
                     cvr |-> IF r.sessions > 0
                             THEN RoundDiv(r.conversions * 10000, r.sessions, tie) ELSE 0,
                     pct |-> IF total_conv > 0
                             THEN RoundDiv(r.conversions * 1000, total_conv, tie) ELSE 0]]
        city_rates ==
            [i \in 1..Len(city_rows) |->
                LET r == city_rows[i]
                IN  [country |-> r.country, city |-> r.city, sessions |-> r.sessions,
                     conversions |-> r.conversions,
                     cvr |-> IF r.sessions > 0
                             THEN RoundDiv(r.conversions * 10000, r.sessions, tie) ELSE 0]]
        target_rows == SelectSeq(country_rows, LAMBDA r : r.country \in TARGET_COUNTRIES)
        target_conv == SumRows(target_rows, "conversions")
        target_pct == IF total_conv > 0 THEN RoundDiv(target_conv * 1000, total_conv, tie) ELSE 0
    IN  [by_country |-> SortDesc(<<>>, with_rates),
         by_city |-> SortDesc(<<>>, city_rates),
         target_pct |-> target_pct,
         non_target_pct |-> 1000 - target_pct,
         total_countries |->
             Cardinality({i \in 1..Len(country_rows) : country_rows[i].conversions > 0})]

\* Mutant of AfterDiscrepancy: the finding is emitted from disc >= 30 on.
AfterDiscrepancyAtLeast(anomalies, summary) ==
    LET ga4_conv == summary.conversions
        ads_conv == summary.ads_conversions
        diff == Abs(10 * ga4_conv - ads_conv)
    IN  IF ga4_conv > 0 /\ ads_conv > 0 /\ diff * 100 >= 30 * (10 * ga4_conv)
        THEN Append(anomalies,
                    [type |-> "discrepancy",
                     detail |-> [ga4_conv |-> ga4_conv, ads_conv |-> ads_conv],
                     severity |-> IF diff * 100 > 50 * (10 * ga4_conv)
                                  THEN "high" ELSE "medium"])
        ELSE anomalies

\* _detect_anomalies, rule 1: anomalies after the discrepancy rule.
\* ads_conv is in tenths; disc > T is decided as
\* |ga4_conv - ads_conv| * 100 > T * ga4_conv.
AfterDiscrepancy(anomalies, summary) ==
    LET ga4_conv == summary.conversions
        ads_conv == summary.ads_conversions
        diff == Abs(10 * ga4_conv - ads_conv)
    IN  IF ga4_conv > 0 /\ ads_conv > 0 /\ diff * 100 > 30 * (10 * ga4_conv)
        THEN Append(anomalies,
                    [type |-> "discrepancy",
                     detail |-> [ga4_conv |-> ga4_conv, ads_conv |-> ads_conv],
                     severity |-> IF diff * 100 > 50 * (10 * ga4_conv)
                                  THEN "high" ELSE "medium"])
        ELSE anomalies

\* Mutant of AfterCountries: the volume guard is dropped (rate alone flags).
RECURSIVE AfterCountriesNoVolumeGuard(_, _)
AfterCountriesNoVolumeGuard(anomalies, by_country) ==
    IF by_country = <<>> THEN anomalies
    ELSE LET c == Head(by_country)
         IN  AfterCountriesNoVolumeGuard(
                 IF c.country \notin TARGET_COUNTRIES /\ c.cvr > 1000
                 THEN Append(anomalies,
                             [type |-> "suspicious_traffic",
                              detail |-> [country |-> country_kr(c.country),
                                          conversions |-> c.conversions, cvr |-> c.cvr],
                              severity |-> "high"])
                 ELSE anomalies,
                 Tail(by_country))

\* _detect_anomalies, rule 2: the loop over geo.by_country.
RECURSIVE AfterCountries(_, _)
AfterCountries(anomalies, by_country) ==
    IF by_country = <<>> THEN anomalies
    ELSE LET c == Head(by_country)
         IN  AfterCountries(
                 IF c.country \notin TARGET_COUNTRIES /\ c.cvr > 1000 /\ c.conversions > 10
                 THEN Append(anomalies,
                             [type |-> "suspicious_traffic",
                              detail |-> [country |-> country_kr(c.country),
                                          conversions |-> c.conversions, cvr |-> c.cvr],
                              severity |-> "high"])
                 ELSE anomalies,
                 Tail(by_country))

\* Mutant of AfterCityLoop: the share threshold is 30%, not 25%.
RECURSIVE AfterCityLoopThreshold30(_, _, _)
AfterCityLoopThreshold30(anomalies, top, total) ==
    IF top = <<>> THEN anomalies
    ELSE LET city == Head(top)
         IN  AfterCityLoopThreshold30(
                 IF /\ total > 0
                    /\ city.conversions * 100 > 30 * total
                    /\ city.country \notin TARGET_COUNTRIES
                 THEN Append(anomalies,
                             [type |-> "city_concentration",
                              detail |-> [city |-> city.city,
                                          country |-> country_kr(city.country)],
                              severity |-> "medium"])
                 ELSE anomalies,
                 Tail(top), total)

\* _detect_anomalies, rule 3, the loop over city_data[:3]; total is the sum
\* over all of city_data.  pct > 25 is decided as conversions * 100 > 25 * total.
RECURSIVE AfterCityLoop(_, _, _)
AfterCityLoop(anomalies, top, total) ==
    IF top = <<>> THEN anomalies
    ELSE LET city == Head(top)
         IN  AfterCityLoop(
                 IF /\ total > 0
                    /\ city.conversions * 100 > 25 * total
                    /\ city.country \notin TARGET_COUNTRIES
                 THEN Append(anomalies,
                             [type |-> "city_concentration",
                              detail |-> [city |-> city.city,
                                          country |-> country_kr(city.country)],
                              severity |-> "medium"])
                 ELSE anomalies,
                 Tail(top), total)

\* Mutant of AfterCities: the rule is skipped once a finding exists.
AfterCitiesShortCircuit(anomalies, city_data) ==
    IF city_data # <<>> /\ anomalies = <<>>
    THEN AfterCityLoop(anomalies,
                       SubSeq(city_data, 1, IF Len(city_data) < 3 THEN Len(city_data) ELSE 3),
                       SumRows(city_data, "conversions"))
    ELSE anomalies

AfterCities(anomalies, city_data) ==
    IF city_data # <<>>
    THEN AfterCityLoop(anomalies,
                       SubSeq(city_data, 1, IF Len(city_data) < 3 THEN Len(city_data) ELSE 3),
                       SumRows(city_data, "conversions"))
    ELSE anomalies

\* _detect_anomalies.
detect_anomalies(data) ==
    LET anomalies ==
            AfterCities(
                AfterCountries(AfterDiscrepancy(<<>>, data.summary), data.geo.by_country),
                data.geo.by_city)
    IN  [items |-> anomalies, count |-> Len(anomalies)]

\* r["cvr"] = round(conversions / sessions * 100, 2) if sessions > 0 else 0,
\* for every row (hundredths of a percent).
WithCvr(rows, tie) ==
    [i \in 1..Len(rows) |->
        rows[i] @@ [cvr |-> IF rows[i].sessions > 0
                            THEN RoundDiv(rows[i].conversions * 10000, rows[i].sessions, tie)
                            ELSE 0]]

\* _get_channel_data: the channel rows with their rate, by conversions.
get_channel_data(rows, tie) ==
    [by_channel |-> SortDescBy(<<>>, WithCvr(rows, tie), "conversions")]

\* The derived entries of a grouped campaign of the Korean report: ctr and
\* cvr in hundredths of a percent, cpa in whole currency units; each is 0
\* when its denominator is not positive.
KrCampaignWithRatios(c, tie) ==
    c @@ [ctr |-> IF c.impressions > 0
                  THEN RoundDiv(c.clicks * 10000, c.impressions, tie) ELSE 0,
          cvr |-> IF c.clicks > 0
                  THEN RoundDiv(c.conversions * 100, c.clicks, tie) ELSE 0,
          cpa |-> IF c.conversions > 0
                  THEN RoundDiv(c.cost, 10000 * c.conversions, tie) ELSE 0]

\* _get_campaign_data: grouped by campaign name (cost in micros,
\* conversions in hundredths), derived, sorted by conversions.
get_campaign_data(rows, tie) ==
    LET campaigns == CampaignAddRows(<<>>, rows)
        result_rows == [i \in 1..Len(campaigns) |-> KrCampaignWithRatios(campaigns[i], tie)]
    IN  [by_campaign |-> SortDescBy(<<>>, result_rows, "conversions")]

\* _get_page_data: the pages by views, the landing pages with their rate by
\* conversions.
get_page_data(top_pages, landing, tie) ==
    [top_pages |-> SortDescBy(<<>>, top_pages, "screenPageViews"),
     landing_pages |-> SortDescBy(<<>>, WithCvr(landing, tie), "conversions")]

\* daily_ga4.sort(key=lambda x: x["date"]): a stable sort by the date text;
\* the 'YYYYMMDD' texts order as their days do.
KrInsertByDate(sorted, r) ==
    LET k == Cardinality({i \in 1..Len(sorted) : sorted[i].date.ord <= r.date.ord})
    IN  SubSeq(sorted, 1, k) \o <<r>> \o SubSeq(sorted, k + 1, Len(sorted))

RECURSIVE KrSortByDate(_, _)
KrSortByDate(sorted, rows) ==
    IF rows = <<>> THEN sorted
    ELSE KrSortByDate(KrInsertByDate(sorted, Head(rows)), Tail(rows))

\* One iteration of the loop over the ads rows of _get_daily_trend: the row
\* is added to the entry of its segments.date, created on first sight
\* (cost in micros, conversions in hundredths).
KrDailyAddRow(daily_ads, r) ==
    LET known == \E i \in 1..Len(daily_ads) : daily_ads[i].date = r.date
        base == IF known THEN daily_ads
                ELSE Append(daily_ads,
                            [date |-> r.date, impressions |-> 0, clicks |-> 0,
                             cost |-> 0, conversions |-> 0])
        at == CHOOSE i \in 1..Len(base) : base[i].date = r.date
    IN  [base EXCEPT ![at].impressions = @ + r.impressions,
                     ![at].clicks = @ + r.clicks,
                     ![at].cost = @ + r.cost_micros,
                     ![at].conversions = @ + r.conversions]

RECURSIVE KrDailyAddRows(_, _)
KrDailyAddRows(daily_ads, rows) ==
    IF rows = <<>> THEN daily_ads
    ELSE KrDailyAddRows(KrDailyAddRow(daily_ads, Head(rows)), Tail(rows))

\* _get_daily_trend: the analytics rows sorted by date, the ads rows
\* summed per date in the order the dates first appear.
get_daily_trend(daily_ga4, ads_result) ==
    [ga4 |-> KrSortByDate(<<>>, daily_ga4),
     ads |-> KrDailyAddRows(<<>>, ads_result)]

\* The data collect_all_data gathers from the provider responses r =
\* [ga4_summary, ads_summary, channels, countries, cities, campaigns,
\* top_pages, landing, daily_ga4, daily_ads] (the lead section holds no
\* ratio, feeds no anomaly rule and is not modelled).
KrCollected(r, tie) ==
    LET d == [summary |-> get_summary_data(r.ga4_summary, r.ads_summary, tie),
              channels |-> get_channel_data(r.channels, tie),
              geo |-> get_geo_data(r.countries, r.cities, tie),
              campaigns |-> get_campaign_data(r.campaigns, tie),
              pages |-> get_page_data(r.top_pages, r.landing, tie),
              daily |-> get_daily_trend(r.daily_ga4, r.daily_ads)]
    IN  d @@ [anomalies |-> detect_anomalies(d)]

\* str.replace("-", ""): the 'YYYY-MM-DD' text of a day becomes its
\* 'YYYYMMDD' text; a text without a hyphen is returned as it is.
remove_hyphens(text) ==
    IF text.fmt = "iso" THEN [fmt |-> "ga4", ord |-> text.ord] ELSE text

\* daily_cost of _build_html: ads_daily maps the date text of every ads
\* entry to the entry (the last one of a text wins); every label is looked
\* up after its hyphens are removed, 0 when the key is absent.
daily_cost(daily_labels, daily_ads) ==
    [i \in 1..Len(daily_labels) |->
        LET key == remove_hyphens(daily_labels[i])
            at == {j \in 1..Len(daily_ads) : daily_ads[j].date = key}
        IN  IF at = {} THEN 0
            ELSE daily_ads[CHOOSE j \in at : \A k \in at : k <= j].cost]

\* Mutant of anomaly_html: every finding is shown as a danger alert.
anomaly_html_all_danger(anomalies) ==
    IF anomalies.count = 0 THEN <<[class |-> "success", type |-> "clean"]>>
    ELSE [i \in 1..Len(anomalies.items) |->
             [class |-> "danger",
              type |-> anomalies.items[i].type,
              detail |-> anomalies.items[i].detail]]

\* anomaly_html of _build_html: the one "no anomaly" alert when the count
\* is 0, otherwise one alert per item, of class danger for severity high
\* and warning for any other severity.
anomaly_html(anomalies) ==
    IF anomalies.count = 0 THEN <<[class |-> "success", type |-> "clean"]>>
    ELSE [i \in 1..Len(anomalies.items) |->
             [class |-> IF anomalies.items[i].severity = "high" THEN "danger"
                        ELSE "warning",
              type |-> anomalies.items[i].type,
              detail |-> anomalies.items[i].detail]]

\* _build_html: the parts of the page that are modelled (the labels and
\* the cost series of the daily chart, the alerts).
build_html(data) ==
    LET daily_labels == [i \in 1..Len(data.daily.ga4) |-> data.daily.ga4[i].date]
    IN  [daily_labels |-> daily_labels,
         daily_sessions |-> [i \in 1..Len(data.daily.ga4) |-> data.daily.ga4[i].sessions],
         daily_cost |-> daily_cost(daily_labels, data.daily.ads),
         anomaly_html |-> anomaly_html(data.anomalies)]

\* The provider calls of the Korean report's collect_all_data, in order;
\* every one of them carries self.start_date .. self.end_date.
KrIssuedQueries ==
    [i \in 1..11 |->
        [query |-> <<"kr_summary_ga4", "kr_summary_ads", "kr_leads", "kr_channels",
                     "kr_countries", "kr_cities", "kr_campaigns", "kr_top_pages",
                     "kr_landing", "kr_daily_ga4", "kr_daily_ads">>[i],
         range |-> <<"START_DATE", "END_DATE">>]]

\* ReportGenerator.collect_all_data of the Korean report.
kr_collect_all_data(Responses) ==
    /\ kr_pc = "constructed"
    /\ \E r \in Responses, tie \in {"down", "up"} :
           /\ kr_replies' = r
           /\ kr_data' = KrCollected(r, tie)
    /\ queries' = queries \o KrIssuedQueries
    /\ kr_pc' = "collected"
    /\ UNCHANGED <<dashVars, callVars, env, clients, files>>

DashIdle ==
    /\ pc = "idle"
    /\ start_date = isoformat(0)
    /\ end_date = isoformat(0)
    /\ replies = <<>>
    /\ ga4_rows = <<>>
    /\ ads_rows = <<>>
    /\ report = <<>>


\* ------------------------------------ specification of the Korean report
\* Largest analytics conversion count of the enumerated summaries.
MaxGaConv == 12
\* Ads conversions of the enumerated summaries run from 0 to this many
\* twentieths of a conversion (steps of 0.05).
MaxAdsSteps == 400
\* Largest conversion count of an enumerated country row.
MaxCountryConv == 12
\* Most city rows of an enumerated city response.
MaxCityRows == 5
\* Largest conversion count of an enumerated city row.
MaxCityConv == 3

Ga4SummaryRow(sessions, conversions) ==
    [sessions |-> sessions, conversions |-> conversions, totalUsers |-> sessions]

AdsSummaryRow(cost_micros, conversions) ==
    [cost_micros |-> cost_micros, clicks |-> 40, conversions |-> conversions,
     impressions |-> 900]

\* Summaries: one analytics totals row and one campaign row, over a grid of
\* conversion counts, and the 100 vs 40 and 100 vs 80 examples.
WideSummaries ==
    {<<<<Ga4SummaryRow(1000, g)>>, <<AdsSummaryRow(2000000000, a)>>>> :
        g \in (0..MaxGaConv) \cup {100},
        a \in {5 * k : k \in 0..MaxAdsSteps} \cup {4000, 8000}}

\* A few summaries: no rows at all, agreeing sources, a medium and a high
\* discrepancy (the last from two campaign rows).
ProbeSummaries ==
    {<<<<>>, <<>>>>,
     <<<<Ga4SummaryRow(1000, 50)>>, <<AdsSummaryRow(2000000000, 4500)>>>>,
     <<<<Ga4SummaryRow(1000, 10)>>, <<AdsSummaryRow(2000000000, 600)>>>>,
     <<<<Ga4SummaryRow(1000, 100)>>,
       <<AdsSummaryRow(1000000000, 2500), AdsSummaryRow(500000000, 1500)>>>>}

ModelCountries == {"United States", "Nepal", "Atlantis"}

CountryRow(country, sessions, conversions) ==
    [country |-> country, sessions |-> sessions, conversions |-> conversions]

CountryRowChoices ==
    {CountryRow(c, s, n) :
        c \in ModelCountries,
        s \in {0, 50, 100, 110, 120},
        n \in {0} \cup (8..MaxCountryConv)}

\* Country responses: up to two rows, one per country (the report is
\* grouped by country).
WideCountries ==
    {rows \in SeqsUpTo(CountryRowChoices, 2) :
        \A i, j \in 1..Len(rows) : i # j => rows[i].country # rows[j].country}

ProbeCountries ==
    {<<>>,
     <<CountryRow("United States", 100, 30), CountryRow("Nepal", 100, 15)>>,
     <<CountryRow("Nepal", 100, 5), CountryRow("Atlantis", 50, 11),
       CountryRow("India", 80, 12)>>}

\* The cities of a city response, in the order the provider lists them.
CityList ==
    <<[country |-> "Nepal", city |-> "Kathmandu"],
      [country |-> "United States", city |-> "New York"],
      [country |-> "India", city |-> "Mumbai"],
      [country |-> "Atlantis", city |-> "Poseidonis"],
      [country |-> "South Korea", city |-> "Seoul"],
      [country |-> "Nepal", city |-> "Pokhara"],
      [country |-> "Philippines", city |-> "Manila"]>>

CityRow(i, conversions) ==
    [country |-> CityList[i].country, city |-> CityList[i].city,
     sessions |-> 100, conversions |-> conversions]

\* City responses: the first k cities, each with any conversion count.
WideCities ==
    UNION {{[i \in 1..k |-> CityRow(i, n[i])] : n \in [1..k -> 0..MaxCityConv]} :
              k \in 0..MaxCityRows}

ProbeCities ==
    {<<>>,
     <<CityRow(1, 6), CityRow(2, 5), CityRow(3, 1)>>,
     <<CityRow(2, 4), CityRow(1, 1), CityRow(5, 1)>>}

\* The answers of a run: the summary pair, the countries and the cities; the
\* channel, campaign and page queries are answered with no rows.
KrResponse(s, countries, cities) ==
    [ga4_summary |-> s[1], ads_summary |-> s[2], countries |-> countries, cities |-> cities,
     channels |-> <<>>, campaigns |-> <<>>, top_pages |-> <<>>, landing |-> <<>>,
     daily_ga4 |-> <<>>, daily_ads |-> <<>>]

\* One provider answer is enumerated over its grid while the others are
\* drawn from the probes.
KrResponses ==
    {KrResponse(s, c, y) : s \in WideSummaries, c \in {<<>>}, y \in {<<>>}}
        \cup {KrResponse(s, c, y) : s \in {<<<<>>, <<>>>>}, c \in WideCountries, y \in {<<>>}}
        \cup {KrResponse(s, c, y) : s \in {<<<<>>, <<>>>>}, c \in {<<>>}, y \in WideCities}
        \cup {KrResponse(s, c, y) : s \in ProbeSummaries, c \in ProbeCountries, y \in ProbeCities}

\* ReportGenerator.__init__ of the Korean report: self.data = {}.
KrConstructed == kr_pc = "constructed" /\ kr_replies = <<>> /\ kr_data = <<>>

Init == DashIdle /\ KrConstructed /\ NoCall /\ Configured

Next == kr_collect_all_data(KrResponses)

Spec == Init /\ [][Next]_vars

\* ------------------------------------------------ claims: the anomalies
\* The findings of one rule, in the order they were emitted.
FindingsOfType(t) == SelectSeq(kr_data.anomalies.items, LAMBDA a : a.type = t)

\* disc > T for disc = |ga_conv - ads_conv| / ga_conv * 100, with ads_conv
\* in tenths and ga_conv > 0.
DiscExceeds(ga_conv, ads_conv, T) == Abs(10 * ga_conv - ads_conv) * 100 > T * 10 * ga_conv

\* C1: exactly one discrepancy finding is emitted if and only if ga_conv > 0,
\* ads_conv > 0 and disc > 30; it is high if disc > 50 and medium otherwise;
\* none is emitted when disc <= 30 or a count is not positive (100 vs 40
\* gives one high finding, 100 vs 80 gives none).
C1_DiscrepancyRule ==
    kr_pc = "collected" =>
        LET ga_conv == kr_data.summary.conversions
            ads_conv == kr_data.summary.ads_conversions
            found == FindingsOfType("discrepancy")
            fires == ga_conv > 0 /\ ads_conv > 0 /\ DiscExceeds(ga_conv, ads_conv, 30)
        IN  /\ Len(found) = (IF fires THEN 1 ELSE 0)
            /\ fires =>
                  found[1].severity =
                      (IF DiscExceeds(ga_conv, ads_conv, 50) THEN "high" ELSE "medium")
            /\ (ga_conv = 100 /\ ads_conv = 400) =>
                  Len(found) = 1 /\ found[1].severity = "high"
            /\ (ga_conv = 100 /\ ads_conv = 800) => found = <<>>

\* C1 witness: analytics reports 100 conversions and ads 40.0, and the one
\* finding of the run is a high discrepancy.
C1_Witness ==
    /\ kr_pc = "collected"
    /\ kr_data.summary.conversions = 100
    /\ kr_data.summary.ads_conversions = 400
    /\ kr_data.anomalies.count = 1
    /\ kr_data.anomalies.items[1].type = "discrepancy"
    /\ kr_data.anomalies.items[1].severity = "high"

\* The country rule's condition on a row of geo.by_country (cvr is the
\* row's conversion rate as the breakdown reports it, in hundredths of a
\* percent).
CountryQualifies(c) ==
    c.country \notin TARGET_COUNTRIES /\ c.cvr > 1000 /\ c.conversions > 10

\* C2: for every country row of the geographic breakdown, a high finding is
\* emitted for it if and only if the country is not in TARGET_COUNTRIES, its
\* conversion rate exceeds 10% and its conversion count exceeds 10; a listed
\* country, or one failing either threshold, is never flagged.
C2_SuspiciousCountryRule ==
    kr_pc = "collected" =>
        LET rows == kr_data.geo.by_country
            found == FindingsOfType("suspicious_traffic")
            For(c) == {k \in 1..Len(found) : found[k].detail.country = country_kr(c.country)}
        IN  /\ \A i \in 1..Len(rows) :
                  /\ Cardinality(For(rows[i])) = (IF CountryQualifies(rows[i]) THEN 1 ELSE 0)
                  /\ \A k \in For(rows[i]) :
                        /\ found[k].severity = "high"
                        /\ found[k].detail.conversions = rows[i].conversions
                        /\ found[k].detail.cvr = rows[i].cvr
            /\ Len(found) = Cardinality({i \in 1..Len(rows) : CountryQualifies(rows[i])})

\* C2 witness: in one breakdown a non-target country above both thresholds is
\* flagged and a non-target country with a rate above 10% but no more than
\* 10 conversions is not.
C2_Witness ==
    /\ kr_pc = "collected"
    /\ \E i, j \in 1..Len(kr_data.geo.by_country) :
          LET a == kr_data.geo.by_country[i]
              b == kr_data.geo.by_country[j]
          IN  /\ CountryQualifies(a)
              /\ b.country \notin TARGET_COUNTRIES
              /\ b.cvr > 1000
              /\ b.conversions <= 10
    /\ Len(FindingsOfType("suspicious_traffic")) = 1

\* The city rule's condition on the row at position i of geo.by_city.
CityQualifies(rows, i) ==
    /\ i <= 3
    /\ rows[i].conversions * 100 > 25 * SumRows(rows, "conversions")
    /\ rows[i].country \notin TARGET_COUNTRIES

\* C3: a medium finding is emitted for a city if and only if it is one of
\* the top 3 cities by conversion count, its share of the total conversions
\* of all city rows exceeds 25% and its country is not in TARGET_COUNTRIES;
\* so at most three city findings are emitted and none when the total is 0.
C3_CityConcentrationRule ==
    kr_pc = "collected" =>
        LET rows == kr_data.geo.by_city
            found == FindingsOfType("city_concentration")
            For(r) == {k \in 1..Len(found) :
                          /\ found[k].detail.city = r.city
                          /\ found[k].detail.country = country_kr(r.country)}
        IN  /\ \A i \in 1..(Len(rows) - 1) : rows[i].conversions >= rows[i + 1].conversions
            /\ \A i \in 1..Len(rows) :
                  /\ Cardinality(For(rows[i])) = (IF CityQualifies(rows, i) THEN 1 ELSE 0)
                  /\ \A k \in For(rows[i]) : found[k].severity = "medium"
            /\ Len(found) = Cardinality({i \in 1..Len(rows) : CityQualifies(rows, i)})
            /\ Len(found) <= 3
            /\ SumRows(rows, "conversions") = 0 => found = <<>>

\* C3 witness: more than three cities; a non-target city among the top 3
\* holds more than 25% and is flagged while a target-country city with more
\* than 25% is not.
C3_Witness ==
    /\ kr_pc = "collected"
    /\ Len(kr_data.geo.by_city) > 3
    /\ \E i, j \in 1..3 :
          /\ CityQualifies(kr_data.geo.by_city, i)
          /\ kr_data.geo.by_city[j].country \in TARGET_COUNTRIES
          /\ kr_data.geo.by_city[j].conversions * 100
                 > 25 * SumRows(kr_data.geo.by_city, "conversions")
    /\ Len(FindingsOfType("city_concentration")) = 1

\* What each rule alone emits, from its own input only.
DiscrepancyPart ==
    LET ga_conv == kr_data.summary.conversions
        ads_conv == kr_data.summary.ads_conversions
    IN  IF ga_conv > 0 /\ ads_conv > 0 /\ DiscExceeds(ga_conv, ads_conv, 30)
        THEN <<[type |-> "discrepancy",
                detail |-> [ga4_conv |-> ga_conv, ads_conv |-> ads_conv],
                severity |-> IF DiscExceeds(ga_conv, ads_conv, 50) THEN "high" ELSE "medium"]>>
        ELSE <<>>

CountryPart ==
    LET q == SelectSeq(kr_data.geo.by_country, CountryQualifies)
    IN  [k \in 1..Len(q) |->
            [type |-> "suspicious_traffic",
             detail |-> [country |-> country_kr(q[k].country),
                         conversions |-> q[k].conversions, cvr |-> q[k].cvr],
             severity |-> "high"]]

CityPart ==
    LET rows == kr_data.geo.by_city
        idx == {i \in 1..Len(rows) : CityQualifies(rows, i)}
        \* the k-th qualifying position, in ascending order
        Nth(k) == CHOOSE i \in idx : Cardinality({j \in idx : j < i}) = k - 1
    IN  [k \in 1..Cardinality(idx) |->
            [type |-> "city_concentration",
             detail |-> [city |-> rows[Nth(k)].city,
                         country |-> country_kr(rows[Nth(k)].country)],
             severity |-> "medium"]]

\* C4: the rules are evaluated independently: the finding list is exactly
\* the discrepancy finding (if its rule fires), then one finding per
\* qualifying country, then one per qualifying city, each part decided by
\* its own rule alone.
C4_RulesIndependent ==
    kr_pc = "collected" =>
        /\ kr_data.anomalies.items = DiscrepancyPart \o CountryPart \o CityPart
        /\ kr_data.anomalies.count = Len(DiscrepancyPart) + Len(CountryPart) + Len(CityPart)

\* C4 witness: all three rules fire in one run.
C4_Witness ==
    /\ kr_pc = "collected"
    /\ DiscrepancyPart # <<>>
    /\ CountryPart # <<>>
    /\ CityPart # <<>>
    /\ Len(kr_data.anomalies.items) >= 3

\* ---------------------------------------------------- claims: the windows
\* The (lastN, prevN, N) triples of a collected report.
WindowPairs ==
    {<<report.last_7_dates, report.prev_7_dates, 7>>,
     <<report.last_30_complete_dates, report.prev_30_dates, 30>>}

\* The windows handed to _build_summary.
SummaryWindows ==
    {report.last_7_dates, report.prev_7_dates,
     report.last_30_complete_dates, report.prev_30_dates}

\* C5: for every start <= end and N in {7, 30}, the lastN window handed to
\* the summary has at most N dates and never contains the end date, and
\* prevN is empty whenever lastN is empty; both are empty when start = end.
C5_WindowBounds ==
    pc = "collected" =>
        \A w \in WindowPairs :
            /\ Len(w[1]) <= w[3]
            /\ end_date \notin Range(w[1])
            /\ (w[1] = <<>> => w[2] = <<>>)
            /\ (start_date = end_date => w[1] = <<>> /\ w[2] = <<>>)

\* C5 witness: a run long enough for a full last7 and a full last30, both
\* ending the day before the end date.
C5_Witness ==
    /\ pc = "collected"
    /\ Len(report.last_7_dates) = 7
    /\ Len(report.last_30_complete_dates) = 30
    /\ report.last_7_dates[7] = isoformat(strptime(end_date) - 1)
    /\ report.last_30_complete_dates[30] = isoformat(strptime(end_date) - 1)

\* C6: each of last7, prev7, last30, prev30 is a contiguous ascending run of
\* iso dates with no date before start or after end, every window date is a
\* key of both daily maps (summing over a window never fails), and a
\* non-empty prevN ends exactly the day before lastN begins.
C6_WindowsContiguousClipped ==
    /\ pc # "failed"
    /\ pc = "collected" =>
           /\ \A W \in SummaryWindows :
                 /\ \A i \in 1..Len(W) : W[i].fmt = "iso"
                 /\ \A i \in 1..(Len(W) - 1) : W[i + 1].ord = W[i].ord + 1
                 /\ \A i \in 1..Len(W) :
                       /\ strptime(start_date) <= W[i].ord
                       /\ W[i].ord <= strptime(end_date)
                 /\ Range(W) \subseteq DOMAIN report.ga4_daily
                 /\ Range(W) \subseteq DOMAIN report.ads_daily
           /\ \A w \in WindowPairs :
                 w[2] # <<>> =>
                     /\ w[1] # <<>>
                     /\ w[2][Len(w[2])].ord + 1 = w[1][1].ord

\* C6 witness: the previous 7 days are full and the previous 30 days exist
\* but are clipped at the start date (fewer than 30 days, beginning on it).
C6_Witness ==
    /\ pc = "collected"
    /\ Len(report.prev_7_dates) = 7
    /\ Len(report.last_30_complete_dates) = 30
    /\ Len(report.prev_30_dates) \in 1..29
    /\ report.prev_30_dates[1] = start_date
    /\ report.prev_30_dates[Len(report.prev_30_dates)].ord + 1
           = report.last_30_complete_dates[1].ord

\* The sum of daily[d][field] over the dates of a set, taken one at a time.
RECURSIVE ManualSum(_, _, _)
ManualSum(daily, S, field) ==
    IF S = {} THEN 0
    ELSE LET d == CHOOSE x \in S : TRUE
         IN  daily[d][field] + ManualSum(daily, S \ {d}, field)

\* Which daily map and counter each field of the totals is summed from.
GaTotalFields == {<<"ga4_sessions", "sessions">>, <<"ga4_active_users", "activeUsers">>}

AdsTotalFields ==
    {<<"ads_cost", "cost">>, <<"ads_impressions", "impressions">>,
     <<"ads_clicks", "clicks">>, <<"ads_conversions", "conversions">>,
     <<"ads_conversion_value", "conversion_value">>}

\* The (window, totals) pairs of the summary.
SummaryTotals ==
    {<<report.last_7_dates, report.summary.last_7_totals>>,
     <<report.prev_7_dates, report.summary.prev_7_totals>>,
     <<report.last_30_complete_dates, report.summary.last_30_totals>>,
     <<report.prev_30_dates, report.summary.prev_30_totals>>,
     <<report.all_dates, report.summary.all_totals>>}

\* C10: for every window W of the summary and every counter field, the
\* total sum_series computes equals the sum of daily_metrics[d][field] over
\* d in W, and every total is zero when W is empty.
C10_WindowTotalsAreSums ==
    pc = "collected" =>
        /\ report.summary.raised = ""
        /\ \A wt \in SummaryTotals :
              /\ \A f \in GaTotalFields :
                    /\ wt[2][f[1]] = ManualSum(report.ga4_daily, Range(wt[1]), f[2])
                    /\ (wt[1] = <<>> => wt[2][f[1]] = 0)
              /\ \A f \in AdsTotalFields :
                    /\ wt[2][f[1]] = ManualSum(report.ads_daily, Range(wt[1]), f[2])
                    /\ (wt[1] = <<>> => wt[2][f[1]] = 0)

\* C10 witness: all four comparison windows are non-empty and carry traffic
\* and spend, with the previous 30 days differing from the last 30.
C10_Witness ==
    /\ pc = "collected"
    /\ report.prev_7_dates # <<>>
    /\ report.prev_30_dates # <<>>
    /\ report.summary.prev_7_totals.ga4_sessions > 0
    /\ report.summary.prev_30_totals.ads_cost > 0
    /\ report.summary.last_30_totals.ads_clicks > 0
    /\ report.summary.prev_30_totals.ads_cost # report.summary.last_30_totals.ads_cost

\* ------------------------------------- specification of the daily series
\* Date texts a provider row may carry: either format, for the days of the
\* run and one day on each side of the largest run, and a text that is no
\* date.
DailyRowDates ==
    {isoformat(o) : o \in 0..(MaxDailyDay + 1)}
        \cup {Ga4Text(o) : o \in 0..(MaxDailyDay + 1)}
        \cup {OtherText}

Ga4Samples == {[sessions |-> 3, activeUsers |-> 2], [sessions |-> 5, activeUsers |-> 4]}

AdsSamples ==
    {[cost_micros |-> 1500000, impressions |-> 10, clicks |-> 2,
      conversions |-> 100, conversions_value |-> <<7>>],
     [cost_micros |-> 250000, impressions |-> 4, clicks |-> 1,
      conversions |-> 50, conversions_value |-> <<>>]}

DailyGa4Rows ==
    {[date |-> d, sessions |-> m.sessions, activeUsers |-> m.activeUsers] :
        d \in DailyRowDates, m \in Ga4Samples}

DailyAdsRows ==
    {[date |-> d, cost_micros |-> m.cost_micros, impressions |-> m.impressions,
      clicks |-> m.clicks, conversions |-> m.conversions,
      conversions_value |-> m.conversions_value] :
        d \in DailyRowDates, m \in AdsSamples}

\* A fixed answer with one row on the end date and one row after it.
ProbeGa4Rows(start, end) ==
    <<[date |-> Ga4Text(end), sessions |-> 3, activeUsers |-> 2],
      [date |-> Ga4Text(end + 1), sessions |-> 5, activeUsers |-> 4]>>

ProbeAdsRows(start, end) ==
    <<[date |-> isoformat(end), cost_micros |-> 1500000, impressions |-> 10,
       clicks |-> 2, conversions |-> 100, conversions_value |-> <<7>>],
      [date |-> isoformat(end + 1), cost_micros |-> 250000, impressions |-> 4,
       clicks |-> 1, conversions |-> 50, conversions_value |-> <<>>]>>

\* One provider's answer is enumerated in full while the other answers with
\* nothing or with its fixed probe.
DailyResponses(start, end) ==
    {DailyService(g, a) : g \in SeqsUpTo(DailyGa4Rows, MaxRows),
                          a \in {<<>>, ProbeAdsRows(start, end)}}
        \cup {DailyService(g, a) : g \in {<<>>, ProbeGa4Rows(start, end)},
                                   a \in SeqsUpTo(DailyAdsRows, MaxRows)}

InitDaily == InitDashboard(1..MaxDailyDay) /\ KrIdle /\ NoCall /\ Configured

NextDaily ==
    collect_all_data(DailyResponses(strptime(start_date), strptime(end_date)))

SpecDaily == InitDaily /\ [][NextDaily]_vars

\* ----------------------------------------------- claims: the daily series
\* The dictionary key each merge loop derives from a row.
Ga4RowKey(row) == parse_ga4_date(row.date)

AdsRowKey(row) == row.date

\* The keys of the rows of each response, row by row.
Ga4RowKeys(rows) == [i \in 1..Len(rows) |-> Ga4RowKey(rows[i])]

AdsRowKeys(rows) == [i \in 1..Len(rows) |-> AdsRowKey(rows[i])]

\* The sum of rows[i][field] over the rows whose key keys[i] is d.
RECURSIVE RowSum(_, _, _, _)
RowSum(rows, keys, d, field) ==
    IF rows = <<>> THEN 0
    ELSE (IF Head(keys) = d THEN Head(rows)[field] ELSE 0)
             + RowSum(Tail(rows), Tail(keys), d, field)

\* The sum of the conversion values the rows keyed d carry.
RECURSIVE RowValueSum(_, _)
RowValueSum(rows, d) ==
    IF rows = <<>> THEN 0
    ELSE (IF AdsRowKey(Head(rows)) = d /\ Head(rows).conversions_value # <<>>
          THEN Head(rows).conversions_value[1] ELSE 0)
             + RowValueSum(Tail(rows), d)

\* rows without its i-th row.
RemoveAt(rows, i) == SubSeq(rows, 1, i - 1) \o SubSeq(rows, i + 1, Len(rows))

\* Every ads counter of every day is the sum over the rows of that day.
AdsMergeAdditive ==
    pc = "collected" =>
        \A d \in DOMAIN report.ads_daily :
            /\ report.ads_daily[d].cost = RowSum(ads_rows, AdsRowKeys(ads_rows), d, "cost_micros")
            /\ report.ads_daily[d].impressions = RowSum(ads_rows, AdsRowKeys(ads_rows), d, "impressions")
            /\ report.ads_daily[d].clicks = RowSum(ads_rows, AdsRowKeys(ads_rows), d, "clicks")
            /\ report.ads_daily[d].conversions = RowSum(ads_rows, AdsRowKeys(ads_rows), d, "conversions")
            /\ report.ads_daily[d].conversion_value = RowValueSum(ads_rows, d)

\* Every analytics counter of every day is the sum over the rows of that day.
Ga4MergeAdditive ==
    pc = "collected" =>
        \A d \in DOMAIN report.ga4_daily :
            /\ report.ga4_daily[d].sessions = RowSum(ga4_rows, Ga4RowKeys(ga4_rows), d, "sessions")
            /\ report.ga4_daily[d].activeUsers = RowSum(ga4_rows, Ga4RowKeys(ga4_rows), d, "activeUsers")

\* C7: merging provider rows into the daily series is additive for both
\* sources: with several rows on one in-window date, the date's value of
\* every counter is the sum of that counter over those rows.
C7_MergeAdditiveBothSources == AdsMergeAdditive /\ Ga4MergeAdditive

\* C7 case: the analytics provider returned two rows for one in-window date.
C7_Witness ==
    /\ pc = "collected"
    /\ Len(ga4_rows) = 2
    /\ Ga4RowKey(ga4_rows[1]) = Ga4RowKey(ga4_rows[2])
    /\ Ga4RowKey(ga4_rows[1]) \in DOMAIN report.ga4_daily

\* C8: a provider row whose date is not one of all_dates is dropped: the
\* daily map keeps exactly the keys all_dates and the counter values it has
\* when that row is not returned, for the analytics and the ads series.
C8_OutOfWindowRowsDropped ==
    pc = "collected" =>
        LET dates == report.all_dates
        IN  /\ DOMAIN report.ga4_daily = Range(dates)
            /\ DOMAIN report.ads_daily = Range(dates)
            /\ \A i \in 1..Len(ga4_rows) :
                  Ga4RowKey(ga4_rows[i]) \notin Range(dates) =>
                      report.ga4_daily =
                          get_ga4_daily_series(RemoveAt(ga4_rows, i), dates).data
            /\ \A i \in 1..Len(ads_rows) :
                  AdsRowKey(ads_rows[i]) \notin Range(dates) =>
                      report.ads_daily =
                          get_ads_daily_series(RemoveAt(ads_rows, i), dates).data

\* C8 witness: each provider returned a row inside the window, which is
\* counted, and a dated row outside it.
C8_Witness ==
    /\ pc = "collected"
    /\ \E i, j \in 1..Len(ga4_rows) :
          /\ Ga4RowKey(ga4_rows[i]) \in Range(report.all_dates)
          /\ ga4_rows[j].date = Ga4Text(strptime(end_date) + 1)
    /\ \E i, j \in 1..Len(ads_rows) :
          /\ AdsRowKey(ads_rows[i]) \in Range(report.all_dates)
          /\ ads_rows[j].date = isoformat(strptime(start_date) - 1)
    /\ \E d \in DOMAIN report.ga4_daily : report.ga4_daily[d].sessions > 0
    /\ \E d \in DOMAIN report.ads_daily : report.ads_daily[d].cost > 0

\* C9: whatever rows the providers return, both daily maps have an entry
\* for every date from start to end inclusive (no lookup of a day of the
\* run fails), and a date for which no row was returned has all its
\* counters zero.
C9_EveryDateInitialisedZero ==
    /\ pc # "failed"
    /\ pc = "collected" =>
           \A o \in strptime(start_date)..strptime(end_date) :
               LET d == isoformat(o)
               IN  /\ d \in DOMAIN report.ga4_daily
                   /\ d \in DOMAIN report.ads_daily
                   /\ (\A i \in 1..Len(ga4_rows) : Ga4RowKey(ga4_rows[i]) # d)
                          => report.ga4_daily[d] = ZeroGa4
                   /\ (\A i \in 1..Len(ads_rows) : AdsRowKey(ads_rows[i]) # d)
                          => report.ads_daily[d] = ZeroAds

\* C9 witness: a run of several days in which each provider returned rows
\* for one day only, so another day of each map has no row.
C9_Witness ==
    /\ pc = "collected"
    /\ strptime(start_date) < strptime(end_date)
    /\ ga4_rows # <<>>
    /\ ads_rows # <<>>
    /\ report.ga4_daily[end_date].sessions > 0
    /\ report.ads_daily[end_date].clicks > 0
    /\ report.ga4_daily[start_date] = ZeroGa4
    /\ report.ads_daily[start_date] = ZeroAds

\* ------------------------------------------------------ claims: the ROAS
\* The seven summaries of a run.
SummaryMetrics ==
    <<report.summary.yesterday_metrics, report.summary.today_metrics,
      report.summary.last_7_totals, report.summary.prev_7_totals,
      report.summary.last_30_totals, report.summary.prev_30_totals,
      report.summary.all_totals>>

\* The card lists of a run.
SummaryCards ==
    <<report.summary.yesterday_cards, report.summary.today_cards,
      report.summary.last_7_cards, report.summary.last_30_cards,
      report.summary.all_time_cards>>

\* The ads source supplied a conversion value for at least one row of the
\* dataset (the rows of the days of the run).
ConversionValueSupplied ==
    \E i \in 1..Len(ads_rows) :
        /\ AdsRowKey(ads_rows[i]) \in Range(report.all_dates)
        /\ ads_rows[i].conversions_value # <<>>

HasRoasCard(cards) == \E i \in 1..Len(cards) : cards[i].label = "ads_roas"

\* conversion_value / cost of a window, with safe division.
WindowRoas(dates) ==
    safe_div(Whole(ManualSum(report.ads_daily, Range(dates), "conversion_value")),
             FromMicros(ManualSum(report.ads_daily, Range(dates), "cost")))

\* C16: ROAS is computed, as conversion_value / cost with safe division, in
\* every summary of a run exactly when the ads source supplied a conversion
\* value for at least one row of the dataset; otherwise every summary
\* reports ROAS as None and shows no ROAS card.
C16_RoasOnlyWithConversionValue ==
    pc = "collected" =>
        /\ ConversionValueSupplied =>
               /\ \A i \in 1..Len(SummaryMetrics) : Len(SummaryMetrics[i].ads_roas) = 1
               /\ \A i \in 1..Len(SummaryCards) : HasRoasCard(SummaryCards[i])
               /\ report.summary.all_totals.ads_roas = <<WindowRoas(report.all_dates)>>
               /\ report.summary.last_7_totals.ads_roas = <<WindowRoas(report.last_7_dates)>>
               /\ report.summary.prev_7_totals.ads_roas = <<WindowRoas(report.prev_7_dates)>>
               /\ report.summary.last_30_totals.ads_roas
                      = <<WindowRoas(report.last_30_complete_dates)>>
               /\ report.summary.prev_30_totals.ads_roas = <<WindowRoas(report.prev_30_dates)>>
               /\ report.summary.today_metrics.ads_roas = <<WindowRoas(<<end_date>>)>>
        /\ ~ConversionValueSupplied =>
               /\ \A i \in 1..Len(SummaryMetrics) : SummaryMetrics[i].ads_roas = <<>>
               /\ \A i \in 1..Len(SummaryCards) : ~HasRoasCard(SummaryCards[i])

\* A run whose ads rows carry a conversion value on a day with cost: the
\* all-time ROAS is a positive number and has its card.
C16_Witness ==
    /\ pc = "collected"
    /\ ConversionValueSupplied
    /\ Len(report.summary.all_totals.ads_roas) = 1
    /\ report.summary.all_totals.ads_roas[1].num > 0
    /\ HasRoasCard(report.summary.all_time_cards)
    /\ \E i \in 1..Len(ads_rows) : ads_rows[i].conversions_value = <<>>

\* ------------------------------------ specification of the helpers' calls
\* Every helper below is a function of its arguments alone; it is called
\* once, on arguments drawn from the sets of this section.

\* Largest numerator (in absolute value) of a number handed to a helper.
MaxOperand == 3

\* Largest day ordinal of a date handed to _build_summary.
MaxSummaryDay == 3

\* The numbers handed to the helpers: halves and wholes of either sign.
SampleNumbers == {Frac(n, d) : n \in (0 - MaxOperand)..MaxOperand, d \in 1..2}

safe_div_call ==
    /\ call = "none"
    /\ \E numerator \in SampleNumbers, denominator \in SampleNumbers :
           /\ args' = <<numerator, denominator>>
           /\ result' = safe_div(numerator, denominator)
    /\ call' = "safe_div"
    /\ UNCHANGED <<dashVars, krVars, mainVars>>

format_delta_call ==
    /\ call = "none"
    /\ \E current \in SampleNumbers, previous \in SampleNumbers :
           /\ args' = <<current, previous>>
           /\ result' = format_delta(current, previous)
    /\ call' = "format_delta"
    /\ UNCHANGED <<dashVars, krVars, mainVars>>

trend_text_call ==
    /\ call = "none"
    /\ \E current \in SampleNumbers, prev \in SampleNumbers :
           /\ args' = <<current, prev>>
           /\ result' = trend_text(current, prev)
    /\ call' = "trend_text"
    /\ UNCHANGED <<dashVars, krVars, mainVars>>

exec_delta_pct_call ==
    /\ call = "none"
    /\ \E current \in SampleNumbers, prev \in SampleNumbers :
           /\ args' = <<current, prev>>
           /\ result' = exec_delta_pct(current, prev)
    /\ call' = "exec_delta_pct"
    /\ UNCHANGED <<dashVars, krVars, mainVars>>

scoreboard_delta_call ==
    /\ call = "none"
    /\ \E current \in SampleNumbers, previous \in SampleNumbers :
           /\ args' = <<current, previous>>
           /\ result' = scoreboard_delta(current, previous)
    /\ call' = "scoreboard_delta"
    /\ UNCHANGED <<dashVars, krVars, mainVars>>

\* The answers of a service with one primary and one fallback query.
QueryServices ==
    {("primary" :> p) @@ ("fallback" :> f) :
        p \in {Answer(<<"primary row">>), Failure},
        f \in {Answer(<<"fallback row">>), Failure}}

run_query_call ==
    /\ call = "none"
    /\ \E service \in QueryServices, fallback_query \in {"", "fallback"} :
           /\ args' = <<service, "primary", fallback_query>>
           /\ result' = run_query(service, "primary", fallback_query)
    /\ call' = "run_query"
    /\ UNCHANGED <<dashVars, krVars, mainVars>>

\* The daily maps handed to _build_summary: an entry for every day of
\* first..last, day o with o + 1 sessions and o + 2 clicks.
SampleGa4Daily(first, last) ==
    [d \in {isoformat(o) : o \in first..last} |->
        [sessions |-> d.ord + 1, activeUsers |-> d.ord]]

SampleAdsDaily(first, last) ==
    [d \in {isoformat(o) : o \in first..last} |->
        [cost |-> 500000 * (d.ord + 1), impressions |-> 10 * d.ord,
         clicks |-> d.ord + 2, conversions |-> 50 * d.ord,
         conversion_value |-> d.ord]]

\* The date sequences handed to _build_summary as a window.
SampleWindows == SeqsUpTo({isoformat(o) : o \in 0..MaxSummaryDay}, 2)

build_summary_call ==
    /\ call = "none"
    /\ \E first \in 0..MaxSummaryDay, last \in 0..MaxSummaryDay,
          window \in SampleWindows, has_conv_value \in BOOLEAN,
          end \in 0..(MaxSummaryDay + 2) :
           /\ first <= last
           /\ args' = [ga4_daily |-> SampleGa4Daily(first, last),
                       ads_daily |-> SampleAdsDaily(first, last),
                       last_7_dates |-> window,
                       has_conv_value |-> has_conv_value,
                       end_date |-> isoformat(end)]
           /\ result' = build_summary(SampleGa4Daily(first, last),
                                      SampleAdsDaily(first, last),
                                      window, <<>>, <<>>, <<>>,
                                      iso_date_range(first, last),
                                      has_conv_value, isoformat(end))
    /\ call' = "build_summary"
    /\ UNCHANGED <<dashVars, krVars, mainVars>>

InitCalls == DashIdle /\ KrIdle /\ NoCall /\ Configured

NextCalls ==
    \/ safe_div_call
    \/ format_delta_call
    \/ trend_text_call
    \/ exec_delta_pct_call
    \/ scoreboard_delta_call
    \/ run_query_call
    \/ build_summary_call

SpecCalls == InitCalls /\ [][NextCalls]_vars

\* ------------------------------------------------ claims: the helpers
\* A number of the model (no exception record).
IsNumber(x) == DOMAIN x = {"num", "den"}

\* C12: for every numerator n, safe_div(n, 0) returns 0; for every non-zero
\* denominator d, safe_div(n, d) returns n / d (the number q with q * d = n).
C12_SafeDiv ==
    call = "safe_div" =>
        LET numerator == args[1]
            denominator == args[2]
        IN  /\ IsNumber(result)
            /\ denominator.num = 0 => result = Whole(0)
            /\ denominator.num # 0 => FracMul(result, denominator) = numerator

\* safe_div was called with a non-zero numerator and a zero denominator and
\* returned 0.
C12_Witness ==
    /\ call = "safe_div"
    /\ args[1].num # 0
    /\ args[2].num = 0
    /\ result = Whole(0)

ReportedDelta ==
    IF call = "format_delta"
    THEN IF result = <<>> THEN [kind |-> "none"]
         ELSE [kind |-> "number",
               value |-> IF result[1].arrow = "down"
                         THEN FracSub(Whole(0), result[1].percent)
                         ELSE result[1].percent]
    ELSE IF call = "trend_text"
    THEN IF result.comparison = "none" THEN [kind |-> "none"]
         ELSE [kind |-> "number",
               value |-> IF result.comparison = "decrease"
                         THEN FracSub(Whole(0), result.percent)
                         ELSE result.percent]
    ELSE IF call = "exec_delta_pct"
    THEN IF result.text = "n/a" THEN [kind |-> "none"]
         ELSE [kind |-> "number", value |-> result.percent]
    ELSE [kind |-> "number", value |-> result]

\* The helpers that compute a period-over-period delta.
DeltaCalls == {"format_delta", "trend_text", "exec_delta_pct", "scoreboard_delta"}

\* C14: every period-over-period delta equals
\* (current - previous) / previous * 100 when previous > 0 and is reported
\* as no comparison, never as a number, for every previous <= 0.
C14_DeltaDefinedForPositivePrevious ==
    call \in DeltaCalls =>
        LET current == args[1]
            previous == args[2]
        IN  /\ previous.num > 0 =>
                   /\ ReportedDelta.kind = "number"
                   /\ ReportedDelta.value = PercentChange(current, previous)
            /\ previous.num <= 0 => ReportedDelta.kind = "none"

\* The week scoreboard was given a previous value of 0 and reported the
\* number 0; format_delta was given a negative previous value and reported a
\* number.
C14_Witness ==
    \/ /\ call = "scoreboard_delta"
       /\ args[2].num = 0
       /\ result = Whole(0)
    \/ /\ call = "format_delta"
       /\ args[2].num < 0
       /\ result # <<>>

\* The direction a helper's text states: "increase", "decrease",
\* "unchanged", or "none" when it states no comparison.
StatedDirection ==
    IF call = "format_delta"
    THEN IF result = <<>> THEN "none"
         ELSE IF result[1].arrow = "up" THEN "increase"
         ELSE IF result[1].arrow = "down" THEN "decrease" ELSE "unchanged"
    ELSE IF call = "trend_text"
    THEN result.comparison
    ELSE IF result.text = "n/a" THEN "none"
    ELSE IF result.sign = "+" THEN "increase"
    ELSE IF result.percent.num < 0 THEN "decrease" ELSE "unchanged"

\* The helpers whose text states a direction.
DirectionCalls == {"format_delta", "trend_text", "exec_delta_pct"}

\* C15: wherever the report states the direction of a change, it is
\* increase exactly when delta > 0, decrease exactly when delta < 0 and
\* unchanged exactly when delta == 0.
C15_DirectionFollowsSign ==
    (call \in DirectionCalls /\ StatedDirection # "none") =>
        LET delta == PercentChange(args[1], args[2])
        IN  /\ StatedDirection = "increase" <=> delta.num > 0
            /\ StatedDirection = "decrease" <=> delta.num < 0
            /\ StatedDirection = "unchanged" <=> delta.num = 0

\* trend_text or the executive summary's delta_pct was given equal current
\* and previous values (delta == 0) and stated an increase.
C15_Witness ==
    /\ call \in {"trend_text", "exec_delta_pct"}
    /\ args[1] = args[2]
    /\ args[2].num > 0
    /\ StatedDirection = "increase"

\* C19: run_query issues the primary query first; when it succeeds its rows
\* are returned and the fallback is never issued; when it fails and a
\* fallback was supplied the fallback is issued exactly once and its rows
\* are returned; when no fallback was supplied, or the fallback fails too,
\* the failure reaches the caller.
C19_FallbackOnceOnFailure ==
    call = "run_query" =>
        LET service == args[1]
            query == args[2]
            fallback_query == args[3]
        IN  /\ result.issued[1] = query
            /\ service[query].ok =>
                   /\ result.issued = <<query>>
                   /\ result.raised = ""
                   /\ result.rows = service[query].rows
            /\ (~service[query].ok /\ fallback_query = "") =>
                   /\ result.issued = <<query>>
                   /\ result.raised # ""
            /\ (~service[query].ok /\ fallback_query # "") =>
                   /\ result.issued = <<query, fallback_query>>
                   /\ service[fallback_query].ok =>
                          (result.raised = "" /\ result.rows = service[fallback_query].rows)
                   /\ ~service[fallback_query].ok => result.raised # ""

\* The primary query failed, the supplied fallback was issued once and its
\* rows were returned.
C19_Witness ==
    /\ call = "run_query"
    /\ ~args[1][args[2]].ok
    /\ args[3] # ""
    /\ result.issued = <<args[2], args[3]>>
    /\ result.raised = ""
    /\ result.rows = args[1][args[3]].rows

\* =========================== specification of the two reports, all sections
\* Largest day ordinal of a run in the specification of the reports.
MaxReportDay == 9
\* Rows of the long provider answers (more than any table keeps).
LongRows == 24

\* Names for the rows of the long answers.
Labels ==
    <<"n01", "n02", "n03", "n04", "n05", "n06", "n07", "n08", "n09", "n10", "n11", "n12",
      "n13", "n14", "n15", "n16", "n17", "n18", "n19", "n20", "n21", "n22", "n23", "n24",
      "n25", "n26">>

LabelOf(i) == Labels[((i - 1) % Len(Labels)) + 1]

CampaignRow(name, impressions, clicks, cost_micros, conversions) ==
    [name |-> name, impressions |-> impressions, clicks |-> clicks,
     cost_micros |-> cost_micros, conversions |-> conversions]

\* Campaign rows: a campaign on two rows, and every combination of a zero
\* and a non-zero total among impressions, clicks and conversions.
CampaignProbe ==
    <<CampaignRow("brand", 100, 5, 2000000, 0),
      CampaignRow("idle", 0, 0, 0, 0),
      CampaignRow("seen", 100, 0, 0, 0),
      CampaignRow("brand", 50, 5, 1000000, 150),
      CampaignRow("ghost", 0, 0, 1000000, 100),
      CampaignRow("idle", 0, 0, 500000, 0),
      CampaignRow("clicked", 10, 4, 3000000, 0)>>

CampaignLong ==
    [i \in 1..LongRows |->
        CampaignRow(LabelOf(i), 10 * i, i, 1000000 * (((i * 7) % 29) + 1), 50 * (i % 3))]

KeywordRow(campaign, keyword, match_type, impressions, clicks, ctr, avg_cpc_micros, cost_micros, conversions, cpa_micros) ==
    [campaign |-> campaign, ad_group |-> "group", keyword |-> keyword,
     match_type |-> match_type, impressions |-> impressions, clicks |-> clicks,
     ctr |-> ctr, avg_cpc_micros |-> avg_cpc_micros, cost_micros |-> cost_micros,
     conversions |-> conversions, cpa_micros |-> cpa_micros]

\* Keyword rows: a keyword on two rows, rows with and without the
\* provider's own ratios, waste rows, a free row and converting rows.
KeywordProbe ==
    <<KeywordRow("brand", "shoes", "EXACT", 100, 10, Frac(1, 10), 200000, 2000000, 0, 0),
      KeywordRow("brand", "shoes", "EXACT", 300, 10, Frac(1, 30), 100000, 1000000, 100, 1000000),
      KeywordRow("brand", "boots", "BROAD", 0, 0, Whole(0), 0, 0, 0, 0),
      KeywordRow("generic", "socks", "PHRASE", 50, 0, Whole(0), 0, 3000000, 0, 0),
      KeywordRow("generic", "hats", "OTHER", 40, 4, Whole(0), 0, 4000000, 200, 0),
      KeywordRow("generic", "belts", "EXACT", 0, 2, Whole(0), 0, 500000, 0, 0)>>

KeywordLong ==
    [i \in 1..LongRows |->
        KeywordRow("brand", LabelOf(i), "EXACT", 10 * i, i, Frac(1, 10), 0,
                   1000000 * (((i * 7) % 29) + 1), IF i % 12 = 0 THEN 100 ELSE 0, 0)]

TermRow(term, clicks, cost_micros, conversions, cpa_micros) ==
    [campaign |-> "brand", ad_group |-> "group", term |-> term, clicks |-> clicks,
     cost_micros |-> cost_micros, conversions |-> conversions, cpa_micros |-> cpa_micros]

\* Search-term rows as the query asks for them (no conversions, some cost).
TermProbe ==
    <<TermRow("cheap shoes", 3, 1500000, 0, 0),
      TermRow("free shoes", 9, 2500000, 0, 0),
      TermRow("shoe repair", 0, 500000, 0, 0),
      TermRow("cheap shoes", 1, 700000, 0, 0)>>

\* Search-term rows among which the provider lists a converting term and a
\* term without cost.
TermMixed ==
    <<TermRow("cheap shoes", 3, 1500000, 0, 0),
      TermRow("buy shoes", 9, 2500000, 200, 1250000),
      TermRow("shoes", 0, 0, 0, 0)>>

TermLong ==
    [i \in 1..LongRows |-> TermRow(LabelOf(i), i, 1000000 * (((i * 5) % 29) + 1), 0, 0)]

LandingRow(url, conversions, cost_micros) ==
    [url |-> url, conversions |-> conversions, cost_micros |-> cost_micros,
     cpa_micros |-> 0]

\* Landing pages: every combination of zero and non-zero conversions and
\* cost.
LandingProbe ==
    <<LandingRow("/", 0, 0), LandingRow("/a", 0, 2000000),
      LandingRow("/b", 150, 0), LandingRow("/c", 200, 3000000),
      LandingRow("/d", 50, 1000000)>>

LandingLong ==
    [i \in 1..LongRows |-> LandingRow(LabelOf(i), 50 * (i % 4), 1000000 * (i % 3))]

DeviceRow(device, conversions, cost_micros) ==
    [device |-> device, conversions |-> conversions, cost_micros |-> cost_micros]

\* Device rows: a device on two rows, zero and non-zero totals.
DeviceProbe ==
    <<DeviceRow("MOBILE", 0, 1000000), DeviceRow("DESKTOP", 0, 0),
      DeviceRow("TABLET", 100, 0), DeviceRow("MOBILE", 0, 2000000),
      DeviceRow("CONNECTED_TV", 150, 3000000)>>

WeekdayProbe ==
    <<[day_of_week |-> "MONDAY", conversions |-> 100],
      [day_of_week |-> "SUNDAY", conversions |-> 0],
      [day_of_week |-> "UNSPECIFIED", conversions |-> 50]>>

HeatmapProbe ==
    <<[day_of_week |-> "MONDAY", hour |-> 9, conversions |-> 100],
      [day_of_week |-> "MONDAY", hour |-> 9, conversions |-> 50],
      [day_of_week |-> "FRIDAY", hour |-> 23, conversions |-> 100],
      [day_of_week |-> "UNSPECIFIED", hour |-> 3, conversions |-> 100],
      [day_of_week |-> "TUESDAY", hour |-> 24, conversions |-> 100]>>

GeoProbe ==
    <<[country |-> "United States", activeUsers |-> 7],
      [country |-> "", activeUsers |-> 2],
      [country |-> "Nepal", activeUsers |-> 9]>>

PageProbe ==
    <<[page |-> "/", sessions |-> 5, activeUsers |-> 4],
      [page |-> "/a", sessions |-> 8, activeUsers |-> 0],
      [page |-> "/b", sessions |-> 0, activeUsers |-> 0]>>

\* What the section queries answer: nothing, the probes, the long answers,
\* or the probes with the mixed search terms.
SectionAnswers ==
    {QuietService,
     [QuietService EXCEPT
         !["ga4_landing"] = Answer(PageProbe), !["ga4_source"] = Answer(PageProbe),
         !["campaign"] = Answer(CampaignProbe), !["geo"] = Answer(GeoProbe),
         !["keyword_7"] = Answer(KeywordProbe), !["keyword_30"] = Answer(KeywordProbe),
         !["search_term"] = Answer(TermProbe), !["landing_page"] = Answer(LandingProbe),
         !["device"] = Answer(DeviceProbe), !["weekday"] = Answer(WeekdayProbe),
         !["heatmap"] = Answer(HeatmapProbe)],
     [QuietService EXCEPT
         !["campaign"] = Answer(CampaignLong),
         !["keyword_7"] = Answer(KeywordLong), !["keyword_30"] = Answer(KeywordLong),
         !["search_term"] = Answer(TermLong), !["landing_page"] = Answer(LandingLong)],
     [QuietService EXCEPT
         !["campaign"] = Answer(CampaignProbe),
         !["keyword_7"] = Answer(KeywordProbe), !["keyword_30"] = Answer(KeywordLong),
         !["search_term"] = Answer(TermMixed), !["device"] = Answer(DeviceProbe)]}

\* The queries of the sections the report can do without.
NonCriticalQueries ==
    {"keyword_7", "keyword_30", "search_term", "landing_page", "device", "weekday",
     "heatmap"}

\* The answers of a run over start..end: the daily series empty or dense,
\* the sections as above, and at most one section query failing.
ReportServices(start, end) ==
    LET Daily == {[sections EXCEPT !["ga4_daily"] = Answer(g), !["ads_daily"] = Answer(a)] :
                     sections \in SectionAnswers,
                     g \in {<<>>, DenseGa4Rows(start, end)},
                     a \in {<<>>, DenseAdsRows(start, end)}}
    IN  Daily \cup {[service EXCEPT ![q] = Failure] :
                       service \in Daily, q \in NonCriticalQueries}

\* Summaries, countries and cities with zero and non-zero totals.
KrRatioSummaries ==
    {<<g, a>> :
        g \in {<<>>, <<Ga4SummaryRow(0, 0)>>, <<Ga4SummaryRow(1000, 0)>>,
               <<Ga4SummaryRow(1000, 50)>>},
        a \in {<<>>, <<AdsSummaryRow(2000000000, 4500)>>,
               <<[cost_micros |-> 3000000, clicks |-> 0, conversions |-> 0,
                  impressions |-> 0]>>}}

KrRatioCountries ==
    {<<>>,
     <<CountryRow("United States", 0, 0), CountryRow("Nepal", 100, 0)>>,
     <<CountryRow("United States", 100, 30), CountryRow("Nepal", 0, 15),
       CountryRow("Atlantis", 50, 0)>>}

KrRatioCities ==
    {<<>>,
     <<CityRow(1, 0), CityRow(2, 0)>>,
     <<CityRow(1, 6), CityRow(2, 5), CityRow(3, 0),
       [country |-> "India", city |-> "Delhi", sessions |-> 0, conversions |-> 2]>>}

ChannelProbe ==
    <<[channel |-> "Organic Search", sessions |-> 200, conversions |-> 7],
      [channel |-> "Direct", sessions |-> 0, conversions |-> 0],
      [channel |-> "Paid Search", sessions |-> 90, conversions |-> 0],
      [channel |-> "Referral", sessions |-> 0, conversions |-> 3]>>

KrLandingProbe ==
    <<[landingPage |-> "/", sessions |-> 300, conversions |-> 4],
      [landingPage |-> "/a", sessions |-> 0, conversions |-> 0],
      [landingPage |-> "/b", sessions |-> 0, conversions |-> 1],
      [landingPage |-> "/c", sessions |-> 70, conversions |-> 0]>>

KrPagesProbe ==
    <<[pagePath |-> "/", screenPageViews |-> 10],
      [pagePath |-> "/a", screenPageViews |-> 30]>>

\* The answers of a run of the Korean report, all sections.
KrRatioResponses ==
    {[ga4_summary |-> s[1], ads_summary |-> s[2], countries |-> c, cities |-> y,
      channels |-> x[1], campaigns |-> x[2], top_pages |-> x[3], landing |-> x[4],
      daily_ga4 |-> <<>>, daily_ads |-> <<>>] :
        s \in KrRatioSummaries, c \in KrRatioCountries, y \in KrRatioCities,
        x \in {<<<<>>, <<>>, <<>>, <<>>>>,
               <<ChannelProbe, CampaignProbe, KrPagesProbe, KrLandingProbe>>}}

\* One of the two programs is run: the dashboard over a range of days, or
\* the Korean report.
InitReports ==
    /\ \/ InitDashboard(0..MaxReportDay) /\ KrIdle
       \/ DashIdle /\ KrConstructed
    /\ NoCall
    /\ Configured

NextReports ==
    \/ collect_all_data(ReportServices(strptime(start_date), strptime(end_date)))
    \/ kr_collect_all_data(KrRatioResponses)

SpecReports == InitReports /\ [][NextReports]_vars

\* ------------------------------------------------- claims: zero denominators
\* A ratio over a zero denominator resolved to 0.
ZeroGivesZero(denominator, ratio) == denominator = 0 => ratio = Whole(0)

\* The charts of the run (a dict by chart name).
Specs == report.extra_chart_specs

\* The ratios of the dashboard resolve without raising.
DashboardRatiosResolve ==
    /\ \A i \in 1..Len(SummaryMetrics) :
          LET m == SummaryMetrics[i]
          IN  /\ ZeroGivesZero(m.ads_impressions, m.ads_ctr)
              /\ ZeroGivesZero(m.ads_clicks, m.ads_cpc)
              /\ ZeroGivesZero(m.ads_conversions, m.ads_cpa)
              /\ m.ads_cost = 0 => m.ads_roas \in {<<>>, <<Whole(0)>>}
              /\ IsNumber(m.ads_ctr) /\ IsNumber(m.ads_cpc) /\ IsNumber(m.ads_cpa)
    /\ \A i \in 1..Len(report.tables.campaigns) :
          LET c == report.tables.campaigns[i]
          IN  /\ ZeroGivesZero(c.impressions, c.ctr)
              /\ ZeroGivesZero(c.clicks, c.cpc)
              /\ ZeroGivesZero(c.conversions, c.cpa)
              /\ IsNumber(c.ctr) /\ IsNumber(c.cpc) /\ IsNumber(c.cpa)
    /\ \A t \in {report.keyword_tables.last_7.top_cost,
                 report.keyword_tables.last_30.top_cost} :
          \A i \in 1..Len(t) :
              /\ IsNumber(t[i].ctr) /\ IsNumber(t[i].avg_cpc)
              /\ ZeroGivesZero(t[i].clicks, t[i].conv_rate)
              /\ t[i].cpa = <<>> \/ IsNumber(t[i].cpa[1])
    /\ \A i \in 1..Len(report.search_terms.table) :
          LET r == report.search_terms.table[i]
          IN  r.cpa = <<>> \/ IsNumber(r.cpa[1])
    /\ ZeroGivesZero(report.wasted_summary.total_cost.num, report.wasted_summary.wasted_share)
    /\ IsNumber(report.wasted_summary.wasted_share)
    /\ "device_cpa_compare" \in DOMAIN Specs =>
          \A i \in 1..Len(Specs["device_cpa_compare"].values_right) :
              /\ IsNumber(Specs["device_cpa_compare"].values_right[i])
              /\ ZeroGivesZero(Specs["device_cpa_compare"].values_left[i].num,
                               Specs["device_cpa_compare"].values_right[i])
    /\ "growth_landing_cpa_top10" \in DOMAIN Specs =>
          \A i \in 1..Len(Specs["growth_landing_cpa_top10"].values_right) :
              IsNumber(Specs["growth_landing_cpa_top10"].values_right[i])
    /\ "growth_keywords_cpa_top10" \in DOMAIN Specs =>
          \A i \in 1..Len(Specs["growth_keywords_cpa_top10"].values) :
              IsNumber(Specs["growth_keywords_cpa_top10"].values[i])
    /\ "week_scoreboard" \in DOMAIN Specs =>
          \A i \in 1..Len(Specs["week_scoreboard"].values) :
              IsNumber(Specs["week_scoreboard"].values[i])
    /\ \A i \in 1..Len(report.last_30_dates) :
          LET day == report.ads_daily[report.last_30_dates[i]]
          IN  /\ ZeroGivesZero(day.impressions, report.charts.ads_ctr_30d.values[i])
              /\ ZeroGivesZero(day.clicks, report.charts.ads_cpc_30d.values[i])

\* The ratios of the Korean report are 0 over a denominator that is not
\* positive, and the discrepancy rule is silent when a count is zero.
KrRatiosResolve ==
    /\ kr_data.summary.sessions = 0 => kr_data.summary.cvr = 0
    /\ kr_data.summary.conversions = 0 => kr_data.summary.cpa = 0
    /\ kr_data.summary.total_impressions = 0 => kr_data.summary.ctr = 0
    /\ kr_data.summary.conversions = 0 \/ kr_data.summary.ads_conversions = 0
           => FindingsOfType("discrepancy") = <<>>
    /\ \A i \in 1..Len(kr_data.geo.by_country) :
          LET r == kr_data.geo.by_country[i]
          IN  /\ r.sessions = 0 => r.cvr = 0
              /\ SumRows(kr_data.geo.by_country, "conversions") = 0 => r.pct = 0
    /\ SumRows(kr_data.geo.by_country, "conversions") = 0 => kr_data.geo.target_pct = 0
    /\ \A rows \in {kr_data.geo.by_city, kr_data.channels.by_channel,
                    kr_data.pages.landing_pages} :
          \A i \in 1..Len(rows) : rows[i].sessions = 0 => rows[i].cvr = 0
    /\ \A i \in 1..Len(kr_data.campaigns.by_campaign) :
          LET c == kr_data.campaigns.by_campaign[i]
          IN  /\ c.impressions = 0 => c.ctr = 0
              /\ c.clicks = 0 => c.cvr = 0
              /\ c.conversions = 0 => c.cpa = 0

\* C13: no ratio of either report raises on a zero denominator: whatever
\* totals are zero, no run ends with a division by zero, and every ratio of
\* a completed run over a zero denominator is 0 or unavailable.
C13_NoRatioRaisesOnZero ==
    /\ pc \in {"collected", "failed"} => report.raised # "ZeroDivisionError"
    /\ pc = "collected" => DashboardRatiosResolve
    /\ kr_pc = "collected" => KrRatiosResolve

\* A completed dashboard run with a campaign of no impressions, clicks or
\* conversions, a device with cost and no conversions, a landing page
\* without conversions next to the charted ones, and no ads cost in the
\* last 7 days.
C13_Witness ==
    /\ pc = "collected"
    /\ \E i \in 1..Len(report.tables.campaigns) :
          LET c == report.tables.campaigns[i]
          IN  c.impressions = 0 /\ c.clicks = 0 /\ c.conversions = 0 /\ c.cost > 0
    /\ "device_cpa_compare" \in DOMAIN Specs
    /\ \E i \in 1..Len(report.device_stats) :
          report.device_stats[i].conversions = 0 /\ report.device_stats[i].cost_micros > 0
    /\ "growth_landing_cpa_top10" \in DOMAIN Specs
    /\ \E i \in 1..Len(report.landing_page_stats) :
          report.landing_page_stats[i].conversions = 0
    /\ report.wasted_summary.total_cost = Whole(0)
    /\ report.wasted_summary.wasted_cost.num > 0

\* ------------------------------------------- claims: the dimensional tables
\* The natural key of a keyword row of the provider and of a table entry.
KeywordKeyOfRow(r) == <<r.campaign, r.ad_group, r.keyword, format_match_type(r.match_type)>>

KeywordKeyOfEntry(e) == <<e.campaign, e.ad_group, e.keyword, e.match_type>>

TermKey(r) == <<r.campaign, r.ad_group, r.term>>

\* The campaign table holds each campaign once, with the sums of its rows
\* and the ratios of those sums.
CampaignsGrouped ==
    LET t == report.tables.campaigns
        rows == replies["campaign"].rows
    IN  /\ \A i, j \in 1..Len(t) : i # j => t[i].campaign # t[j].campaign
        /\ \A i \in 1..Len(t) :
              LET own == SelectSeq(rows, LAMBDA r : r.name = t[i].campaign)
              IN  /\ t[i].impressions = SumRows(own, "impressions")
                  /\ t[i].clicks = SumRows(own, "clicks")
                  /\ t[i].cost = SumRows(own, "cost_micros")
                  /\ t[i].conversions = SumRows(own, "conversions")
                  /\ t[i].ctr = FracMul(safe_div(Whole(t[i].clicks), Whole(t[i].impressions)),
                                        Whole(100))
                  /\ t[i].cpc = safe_div(FromMicros(t[i].cost), Whole(t[i].clicks))
                  /\ t[i].cpa = safe_div(FromMicros(t[i].cost),
                                         FromHundredths(t[i].conversions))

\* A keyword table holds each natural key once, with the sums of the rows
\* of the key and the ratios of those sums.
KeywordTableGrouped(t, rows) ==
    /\ \A i, j \in 1..Len(t) : i # j => KeywordKeyOfEntry(t[i]) # KeywordKeyOfEntry(t[j])
    /\ \A i \in 1..Len(t) :
          LET own == SelectSeq(rows, LAMBDA r : KeywordKeyOfRow(r) = KeywordKeyOfEntry(t[i]))
              clicks == SumRows(own, "clicks")
              cost == FromMicros(SumRows(own, "cost_micros"))
          IN  /\ t[i].impressions = SumRows(own, "impressions")
              /\ t[i].clicks = clicks
              /\ t[i].cost = cost
              /\ t[i].conversions = FromHundredths(SumRows(own, "conversions"))
              /\ t[i].ctr = FracMul(safe_div(Whole(clicks),
                                             Whole(SumRows(own, "impressions"))), Whole(100))
              /\ t[i].avg_cpc = safe_div(cost, Whole(clicks))
              /\ t[i].cpa # <<>> =>
                     t[i].cpa[1] = safe_div(cost, FromHundredths(SumRows(own, "conversions")))

\* The search-term table holds each natural key once, with the sums of the
\* rows of the key.
TermTableGrouped ==
    LET t == report.search_terms.table
        rows == replies["search_term"].rows
    IN  /\ \A i, j \in 1..Len(t) : i # j => TermKey(t[i]) # TermKey(t[j])
        /\ \A i \in 1..Len(t) :
              LET own == SelectSeq(rows, LAMBDA r : TermKey(r) = TermKey(t[i]))
              IN  /\ t[i].clicks = SumRows(own, "clicks")
                  /\ t[i].cost = FromMicros(SumRows(own, "cost_micros"))
                  /\ t[i].conversions = FromHundredths(SumRows(own, "conversions"))

\* C17: in the campaign, keyword and search-term tables the rows of one
\* natural key are merged into one entry holding the sums of impressions,
\* clicks, cost and conversions, so a key appears at most once, and CTR,
\* CPC and CPA of an entry are computed from the grouped totals.
C17_TablesGroupedByKey ==
    pc = "collected" =>
        /\ CampaignsGrouped
        /\ KeywordTableGrouped(report.keyword_tables.last_7.top_cost,
                               replies["keyword_7"].rows)
        /\ KeywordTableGrouped(report.keyword_tables.last_30.top_cost,
                               replies["keyword_30"].rows)
        /\ TermTableGrouped

\* A completed run whose campaign table is grouped, while its keyword table
\* and its search-term table each list one natural key on two rows, the
\* keyword rows with the click rates of the single provider rows.
C17_Witness ==
    /\ pc = "collected"
    /\ CampaignsGrouped
    /\ \E i \in 1..Len(replies["campaign"].rows) :
          \E j \in 1..Len(replies["campaign"].rows) :
              i # j /\ replies["campaign"].rows[i].name = replies["campaign"].rows[j].name
    /\ LET t == report.keyword_tables.last_7.top_cost
       IN  \E i, j \in 1..Len(t) :
               /\ i # j
               /\ KeywordKeyOfEntry(t[i]) = KeywordKeyOfEntry(t[j])
               /\ t[i].ctr # t[j].ctr
    /\ LET t == report.search_terms.table
       IN  \E i, j \in 1..Len(t) : i # j /\ TermKey(t[i]) = TermKey(t[j])

\* ------------------------------------------------- claims: the wasted spend
\* The waste candidates among rows: no conversions and some cost.
WasteCandidates(rows) == SelectSeq(rows, LAMBDA r : r.conversions = 0 /\ r.cost_micros > 0)

\* labels and costs (one per listed item) are the N waste candidates of
\* rows of highest cost, in descending order of cost: each item is a
\* candidate, and the i-th cost is the i-th largest cost of a candidate.
TopWaste(labels, costs, rows, label_field, N) ==
    LET cand == WasteCandidates(rows)
        Above(c) == Cardinality({j \in 1..Len(cand) : FracLess(c, FromMicros(cand[j].cost_micros))})
        AtLeast(c) == Cardinality({j \in 1..Len(cand) : ~FracLess(FromMicros(cand[j].cost_micros), c)})
    IN  /\ Len(labels) = Len(costs)
        /\ Len(costs) = (IF Len(cand) < N THEN Len(cand) ELSE N)
        /\ \A i \in 1..Len(costs) :
              /\ \E j \in 1..Len(cand) :
                    /\ cand[j][label_field] = labels[i]
                    /\ FromMicros(cand[j].cost_micros) = costs[i]
              /\ Above(costs[i]) < i
              /\ i <= AtLeast(costs[i])

\* The keyword waste table and the keyword waste chart of the run.
KeywordWasteSets ==
    LET rows == report.keyword_tables.last_7.rows
        t == report.keyword_tables.last_7.wasted
    IN  /\ TopWaste([i \in 1..Len(t) |-> t[i].keyword], [i \in 1..Len(t) |-> t[i].cost],
                    rows, "keyword", KeywordTableLimit)
        /\ IF "waste_keywords_top10" \in DOMAIN Specs
           THEN TopWaste(Specs["waste_keywords_top10"].labels,
                         Specs["waste_keywords_top10"].values, rows, "keyword", ChartLimit)
           ELSE WasteCandidates(rows) = <<>>

\* The search-term table and the search-term waste chart of the run.
TermWasteSets ==
    LET rows == report.search_terms.rows
        t == report.search_terms.table
    IN  /\ \A i \in 1..Len(t) : t[i].conversions = Whole(0) /\ t[i].cost.num > 0
        /\ TopWaste([i \in 1..Len(t) |-> t[i].term], [i \in 1..Len(t) |-> t[i].cost],
                    rows, "term", KeywordTableLimit)
        /\ IF "waste_queries_top10" \in DOMAIN Specs
           THEN TopWaste(Specs["waste_queries_top10"].labels,
                         Specs["waste_queries_top10"].values, rows, "term", ChartLimit)
           ELSE WasteCandidates(rows) = <<>>

\* The top items of the wasted summary are the three waste candidates of
\* highest cost of the rows the summary is built from.
SummaryWasteSet ==
    LET w == report.wasted_summary
        rows == IF w.source = "search_term" THEN report.search_terms.rows
                ELSE report.keyword_tables.last_7.rows
        label_field == IF w.source = "search_term" THEN "term" ELSE "keyword"
        cand == WasteCandidates(rows)
        top == Take(SortDescBy(<<>>, cand, "cost_micros"), TopItemsLimit)
    IN  /\ w.top_count = Len(top)
        /\ w.top_sum = FromMicros(SumRows(top, "cost_micros"))
        /\ w.wasted_cost = FromMicros(SumRows(cand, "cost_micros"))
        /\ \A i \in 1..Len(w.top_items) :
              \E j \in 1..Len(cand) :
                  /\ cand[j][label_field] = w.top_items[i]
                  /\ cand[j].cost_micros = top[i].cost_micros

\* C18: whatever rows the ads source returns, every keyword or search term
\* of a wasted-spend set (keyword waste table, search-term table, wasted
\* summary, waste charts) has no conversions and some cost, and each set is
\* the N waste candidates of highest cost in descending order of cost
\* (20 for the tables, 10 for the charts, 3 for the summary).
C18_WasteSetsHoldOnlyWaste ==
    pc = "collected" => KeywordWasteSets /\ TermWasteSets /\ SummaryWasteSet

\* A completed run whose search-term answer lists a converting term: the
\* term is in the search-term table, in the waste chart and among the top
\* items of the wasted summary, while the keyword waste sets hold waste
\* only.
C18_Witness ==
    /\ pc = "collected"
    /\ KeywordWasteSets
    /\ report.keyword_tables.last_7.wasted # <<>>
    /\ \E i \in 1..Len(report.search_terms.table) :
          LET e == report.search_terms.table[i]
          IN  /\ e.conversions.num > 0
              /\ \E k \in 1..Len(report.wasted_summary.top_items) :
                    report.wasted_summary.top_items[k] = e.term
              /\ \E k \in 1..Len(Specs["waste_queries_top10"].labels) :
                    Specs["waste_queries_top10"].labels[k] = e.term

\* ------------------------------------------ claims: sections that may fail
\* The entry of the report that holds the section of the query q.
SectionOf(q) ==
    IF q \in {"keyword_7", "keyword_30"} THEN "keyword_tables"
    ELSE IF q = "search_term" THEN "search_terms"
    ELSE IF q = "landing_page" THEN "landing_page_stats"
    ELSE IF q = "device" THEN "device_stats"
    ELSE IF q = "weekday" THEN "weekday_stats"
    ELSE "heatmap_stats"

\* The section of the query q holds nothing.
SectionEmpty(q) ==
    IF q = "keyword_7" THEN report.keyword_tables.last_7.rows = <<>>
    ELSE IF q = "keyword_30" THEN report.keyword_tables.last_30.rows = <<>>
    ELSE IF q = "search_term" THEN report.search_terms.rows = <<>>
    ELSE IF q = "heatmap" THEN report.heatmap_stats = NoHeatmap
    ELSE report[SectionOf(q)] = <<>>

\* The run completed, the section of the query q is empty, and every other
\* entry of the report is the one built when q answers no rows.
DegradedTo(q) ==
    /\ pc = "collected"
    /\ SectionEmpty(q)
    /\ LET quiet == CollectedReport(strptime(start_date), strptime(end_date),
                                    [replies EXCEPT ![q] = Answer(<<>>)])
       IN  \A f \in DOMAIN report \ {SectionOf(q)} : report[f] = quiet[f]

\* C20: when the provider call of a section the report can do without
\* (keyword tables, search-term waste table, landing-page stats, device,
\* weekday and hour-by-weekday breakdowns) fails, collect_all_data still
\* completes, with that section empty and every other section as it is
\* built without the failure.
C20_OptionalSectionsDegrade ==
    pc \in {"collected", "failed"} =>
        \A q \in NonCriticalQueries : replies[q] = Failure => DegradedTo(q)

\* A run over a week in which the keyword query of the last 7 days failed:
\* collect_all_data ended with the exception and built no report.
C20_Witness ==
    /\ pc = "failed"
    /\ report.raised = "Exception"
    /\ replies["keyword_7"] = Failure
    /\ \A q \in QueryNames \ {"keyword_7"} : replies[q] # Failure
    /\ strptime(start_date) < strptime(end_date)

\* ------------------------------------------------ claims: the wasted summary
\* C30: for any rows the providers return, the wasted cost of the wasted
\* summary never exceeds the ads cost of the last 7 days, the wasted share
\* lies between 0 and 100, the share is 0 when the total cost is 0, the
\* cost of the top items is at most the wasted cost, and at most 3 items
\* are named.
C30_WasteWithinTotal ==
    pc = "collected" =>
        LET w == report.wasted_summary
        IN  /\ ~FracLess(w.total_cost, w.wasted_cost)
            /\ ~FracLess(w.wasted_share, Whole(0))
            /\ ~FracLess(Whole(100), w.wasted_share)
            /\ w.total_cost = Whole(0) => w.wasted_share = Whole(0)
            /\ ~FracLess(w.wasted_cost, w.top_sum)
            /\ w.top_count <= TopItemsLimit
            /\ Len(w.top_items) = w.top_count

\* A run whose ads cost of the last 7 days is above zero and below the
\* cost of the search-term rows: the wasted share is above 100.
C30_Witness ==
    /\ pc = "collected"
    /\ report.wasted_summary.source = "search_term"
    /\ FracLess(Whole(0), report.wasted_summary.total_cost)
    /\ FracLess(report.wasted_summary.total_cost, report.wasted_summary.wasted_cost)
    /\ FracLess(Whole(100), report.wasted_summary.wasted_share)

\* ------------------------------------------- claims: empty previous windows
\* No card of the sequence carries a delta.
NoCardDelta(cards) == \A i \in 1..Len(cards) : cards[i].delta = <<>>

\* Every trend of the sequence is the "no comparison" note.
NoTrendComparison(trends) ==
    \A i \in 1..Len(trends) :
        trends[i].comparison = "none" /\ "percent" \notin DOMAIN trends[i]

\* C28: when the previous 7-day window is empty, the last-7 cards carry no
\* delta, every trend of the AI summary is "no comparison", every change of
\* the executive summary is "n/a" and the week scoreboard is omitted; when
\* the previous 30-day window is empty, the last-30 cards carry no delta.
\* None of them is a 0% change or any other number.
C28_EmptyPreviousMeansNoComparison ==
    pc = "collected" =>
        /\ report.prev_7_dates = <<>> =>
               /\ NoCardDelta(report.summary.last_7_cards)
               /\ NoTrendComparison(report.ai_summary.text)
               /\ NoTrendComparison(report.ai_summary.insights)
               /\ \A i \in 1..Len(report.exec_summary.changes) :
                      report.exec_summary.changes[i] = [text |-> "n/a"]
               /\ "week_scoreboard" \notin DOMAIN report.extra_chart_specs
        /\ report.prev_30_dates = <<>> =>
               NoCardDelta(report.summary.last_30_cards)

\* A run of 5 days with data on every day: the last 7 days hold sessions
\* and cost, and both previous windows are empty.
C28_Witness ==
    /\ pc = "collected"
    /\ strptime(end_date) = strptime(start_date) + 4
    /\ report.prev_7_dates = <<>>
    /\ report.prev_30_dates = <<>>
    /\ Len(report.last_7_dates) = 4
    /\ report.summary.last_7_totals.ga4_sessions > 0
    /\ report.summary.last_7_totals.ads_cost > 0
    /\ Len(report.summary.last_7_cards) = 10
    /\ Len(report.summary.last_30_cards) = 10

\* ------------------------------------------- claims: the last-30 window
\* The six 30-day trend charts of the report.
TrendCharts ==
    {"ga4_sessions_30d", "ga4_active_users_30d", "ads_cost_30d",
     "ads_conversions_30d", "ads_ctr_30d", "ads_cpc_30d"}

\* The three queries of the landing, source/medium and campaign tables.
TableQueries == {"ga4_landing", "ga4_source", "campaign"}

\* The day before end_date, as the text a query carries.
DayBeforeEnd == isoformat(strptime(end_date) - 1)

\* C27: every "last 30 days" aggregate of a run is computed over a window
\* that ends at end - 1 and never includes end: the totals behind the
\* last-30 summary cards, the date range of the landing, source/medium and
\* campaign table queries, and the dates of the 30-day trend charts.
C27_Last30EndsBeforeEnd ==
    pc = "collected" =>
        /\ end_date \notin Range(report.last_30_complete_dates)
        /\ report.summary.last_30_totals =
               window_totals(report.ga4_daily, report.ads_daily,
                             report.last_30_complete_dates, report.has_conv_value)
        /\ \A i \in 1..Len(queries) :
               queries[i].query \in TableQueries => queries[i].range[2] = DayBeforeEnd
        /\ \A c \in TrendCharts : end_date \notin Range(report.charts[c].dates)

\* A run of 40 days with data on every day: the three table queries carry
\* the range end - 29 .. end, and the cost chart plots 30 days of which the
\* last is end with its cost, while the summary window is end - 30 .. end - 1.
C27_Witness ==
    /\ pc = "collected"
    /\ strptime(end_date) = strptime(start_date) + 39
    /\ \A q \in TableQueries :
           \E i \in 1..Len(queries) :
               /\ queries[i].query = q
               /\ queries[i].range = <<isoformat(strptime(end_date) - 29), end_date>>
    /\ Len(report.charts.ads_cost_30d.dates) = 30
    /\ report.charts.ads_cost_30d.dates[30] = end_date
    /\ report.charts.ads_cost_30d.values[30] = FromMicros(report.ads_daily[end_date].cost)
    /\ report.ads_daily[end_date].cost > 0
    /\ report.last_30_complete_dates[30] = DayBeforeEnd
    /\ Len(report.last_30_complete_dates) = 30

\* --------------------------------------------- claims: the empty windows
\* The queries sent for the last 7 days and for the last 30 complete days.
Last7Queries ==
    {"geo", "keyword_7", "search_term", "landing_page", "device", "weekday", "heatmap"}

Last30Queries == {"keyword_30", "conversion_rows", "conversion_rows_fallback"}

\* The names of the queries sent so far.
SentNames == {queries[i].query : i \in 1..Len(queries)}

\* C29: when the last-7 or the last-30 window of a run is empty (start ==
\* end), no query is sent for that window, and no query sent carries a date
\* range whose start bound is later than its end bound.
C29_NoQueryForEmptyWindow ==
    pc \in {"collected", "failed"} =>
        /\ last_7_dates(strptime(start_date), strptime(end_date)) = <<>> =>
               SentNames \cap Last7Queries = {}
        /\ last_30_complete_dates(strptime(start_date), strptime(end_date)) = <<>> =>
               SentNames \cap Last30Queries = {}
        /\ \A i \in 1..Len(queries) :
               queries[i].range # <<>> =>
                   strptime(queries[i].range[1]) <= strptime(queries[i].range[2])

\* A run with start == end that completed: no query of the last 7 days
\* and no keyword query of the last 30 days was sent, but the conversion
\* query was, with the range end .. end - 1.
C29_Witness ==
    /\ pc = "collected"
    /\ start_date = end_date
    /\ report.last_7_dates = <<>>
    /\ report.last_30_complete_dates = <<>>
    /\ SentNames \cap Last7Queries = {}
    /\ "keyword_30" \notin SentNames
    /\ \E i \in 1..Len(queries) :
           /\ queries[i].query = "conversion_rows"
           /\ queries[i].range = <<end_date, DayBeforeEnd>>

\* ---------------------------------------------------------------- main
\* The 30-day trend charts in the order _build_chart_data lists them.
TrendChartOrder ==
    <<"ga4_sessions_30d", "ga4_active_users_30d", "ads_cost_30d",
      "ads_conversions_30d", "ads_ctr_30d", "ads_cpc_30d">>

\* The extra charts in the order _build_extra_chart_specs adds them.
ExtraChartOrder ==
    <<"week_scoreboard", "countries_top10", "waste_keywords_top10",
      "waste_queries_top10", "growth_keywords_cpa_top10", "growth_landing_cpa_top10",
      "device_cpa_compare", "weekday_conversions", "hour_weekday_heatmap">>

\* A file written below reports/<end_date>/ ("report_dir") or in the working
\* directory ("root").
File(dir, name) == [dir |-> dir, name |-> name]

\* Mutant of ConfiguredOrReturned: main returns only when both identifiers
\* are missing.
ReturnedWhenBothMissing(position) ==
    IF env.PROPERTY_ID = "" /\ env.CUSTOMER_ID = "" THEN "returned" ELSE position

\* main of either program up to the construction of the generator: without
\* PROPERTY_ID or CUSTOMER_ID it prints the error and returns; otherwise
\* ReportGenerator.__init__ builds the two clients.
ConfiguredOrReturned(position) ==
    IF env.PROPERTY_ID = "" \/ env.CUSTOMER_ID = "" THEN "returned" ELSE position

main_configure ==
    /\ pc = "start"
    /\ pc' = ConfiguredOrReturned("constructed")
    /\ clients' = IF pc' = "constructed" THEN {"ga4", "ads"} ELSE clients
    /\ UNCHANGED <<start_date, end_date, replies, ga4_rows, ads_rows, report,
                   krVars, callVars, env, queries, files>>

\* generate_charts: one PNG per trend chart that has data.
generate_charts ==
    /\ pc = "collected"
    /\ LET drawn == SelectSeq(TrendChartOrder, LAMBDA c : report.charts[c].has_data)
       IN  files' = files \o [i \in 1..Len(drawn) |-> File("report_dir", drawn[i])]
    /\ pc' = "charts"
    /\ UNCHANGED <<start_date, end_date, replies, ga4_rows, ads_rows, report,
                   krVars, callVars, env, clients, queries>>

\* generate_extra_charts: one PNG per chart of the specs.
generate_extra_charts ==
    /\ pc = "charts"
    /\ LET drawn == SelectSeq(ExtraChartOrder,
                              LAMBDA c : c \in DOMAIN report.extra_chart_specs)
       IN  files' = files \o [i \in 1..Len(drawn) |-> File("report_dir", drawn[i])]
    /\ pc' = "extra_charts"
    /\ UNCHANGED <<start_date, end_date, replies, ga4_rows, ads_rows, report,
                   krVars, callVars, env, clients, queries>>

\* render_report: the page is written to index.html of the directory; main
\* calls it for the report directory and then for the working directory.
render_report(position, dir, next_position) ==
    /\ pc = position
    /\ files' = Append(files, File(dir, "index.html"))
    /\ pc' = next_position
    /\ UNCHANGED <<start_date, end_date, replies, ga4_rows, ads_rows, report,
                   krVars, callVars, env, clients, queries>>

\* main of the Korean report up to the construction of the generator.
kr_main_configure ==
    /\ kr_pc = "start"
    /\ kr_pc' = ConfiguredOrReturned("constructed")
    /\ clients' = IF kr_pc' = "constructed" THEN {"ga4", "ads"} ELSE clients
    /\ UNCHANGED <<dashVars, kr_replies, kr_data, callVars, env, queries, files>>

\* generate_html of the Korean report: the page built from self.data is
\* written to reports/<end_date>/index.html.
generate_html ==
    /\ kr_pc = "collected"
    /\ files' = Append(files, File("report_dir", "index.html") @@
                                  [html |-> build_html(kr_data)])
    /\ kr_pc' = "written"
    /\ UNCHANGED <<dashVars, kr_replies, kr_data, callVars, env, clients, queries>>

\* ------------------------------------------------ specification of main
\* Largest day ordinal of a run of main.
MaxMainDay == 3

\* The environments main may find: each identifier set or unset.
Environments ==
    {[PROPERTY_ID |-> p, CUSTOMER_ID |-> c] :
        p \in {"", FullEnv.PROPERTY_ID}, c \in {"", FullEnv.CUSTOMER_ID}}

\* What the fallback of the daily ads query answers: one row per day,
\* without conversions_value and with other numbers than the primary.
FallbackAdsRows(start, end) ==
    [i \in 1..((end - start) + 1) |->
        [date |-> isoformat(start + (i - 1)),
         cost_micros |-> 250000 * (2 + ((start + i) % 3)),
         impressions |-> 7 + ((start + i) % 2),
         clicks |-> 1 + ((start + i) % 2),
         conversions |-> 25 * ((start + i) % 3),
         conversions_value |-> <<>>]]

\* The answers of a run of main over start..end: each of the three daily
\* queries answers or fails, the sections answer nothing or their probes.
MainServices(start, end) ==
    {[sections EXCEPT !["ga4_daily"] = g, !["ads_daily"] = a,
                      !["ads_daily_fallback"] = f] :
        sections \in {QuietService,
                      [QuietService EXCEPT
                          !["campaign"] = Answer(CampaignProbe),
                          !["geo"] = Answer(GeoProbe),
                          !["keyword_7"] = Answer(KeywordProbe),
                          !["search_term"] = Answer(TermProbe),
                          !["weekday"] = Answer(WeekdayProbe)]},
        g \in {Answer(DenseGa4Rows(start, end)), Failure},
        a \in {Answer(DenseAdsRows(start, end)), Failure},
        f \in {Answer(FallbackAdsRows(start, end)), Failure}}

\* The daily rows of the Korean report: the analytics rows of days 1..3 out
\* of order, the campaign rows of days 1 and 3 (two campaigns on day 1).
KrDailyGa4Probe ==
    <<[date |-> Ga4Text(2), sessions |-> 20, conversions |-> 2, totalUsers |-> 15],
      [date |-> Ga4Text(1), sessions |-> 10, conversions |-> 1, totalUsers |-> 8],
      [date |-> Ga4Text(3), sessions |-> 30, conversions |-> 0, totalUsers |-> 21]>>

KrDailyAdsProbe ==
    <<[date |-> isoformat(1), impressions |-> 100, clicks |-> 10,
       cost_micros |-> 1500000, conversions |-> 100],
      [date |-> isoformat(3), impressions |-> 50, clicks |-> 5,
       cost_micros |-> 700000, conversions |-> 0],
      [date |-> isoformat(1), impressions |-> 40, clicks |-> 4,
       cost_micros |-> 500000, conversions |-> 50]>>

\* The answers of a run of the Korean main: the probes of the summary, the
\* countries and the cities, with the daily rows or none.
KrMainResponses ==
    {[KrResponse(s, c, y) EXCEPT !.daily_ga4 = g, !.daily_ads = a] :
        s \in ProbeSummaries, c \in ProbeCountries, y \in ProbeCities,
        g \in {<<>>, KrDailyGa4Probe}, a \in {<<>>, KrDailyAdsProbe}}

\* One of the two programs is started, in any environment.
InitMain ==
    /\ \/ /\ pc = "start"
          /\ \E s \in 0..MaxMainDay, e \in 0..MaxMainDay :
                 /\ s <= e
                 /\ start_date = isoformat(s)
                 /\ end_date = isoformat(e)
          /\ replies = <<>>
          /\ ga4_rows = <<>>
          /\ ads_rows = <<>>
          /\ report = <<>>
          /\ KrIdle
       \/ /\ DashIdle
          /\ kr_pc = "start"
          /\ kr_replies = <<>>
          /\ kr_data = <<>>
    /\ NoCall
    /\ env \in Environments
    /\ clients = {}
    /\ queries = <<>>
    /\ files = <<>>

NextMain ==
    \/ main_configure
    \/ collect_all_data(MainServices(strptime(start_date), strptime(end_date)))
    \/ generate_charts
    \/ generate_extra_charts
    \/ render_report("extra_charts", "report_dir", "report_html")
    \/ render_report("report_html", "root", "done")
    \/ kr_main_configure
    \/ kr_collect_all_data(KrMainResponses)
    \/ generate_html

SpecMain == InitMain /\ [][NextMain]_vars

\* ------------------------------------------------- claims: the core path
\* The analytics daily query failed, or the ads daily query failed together
\* with its fallback.
CoreFetchFailed ==
    /\ replies # <<>>
    /\ \/ ~replies["ga4_daily"].ok
       \/ ~replies["ads_daily"].ok /\ ~replies["ads_daily_fallback"].ok

\* C21: when a fetch of the core path fails (the analytics daily query, or
\* the ads daily query with its fallback failing too) the run has failed:
\* it is never a completed or degraded run and no chart image or page is
\* written at any later time; and in every run no provider query is sent
\* once the first chart image or page was written.
C21_CoreFailureStopsTheRun ==
    /\ [](CoreFetchFailed => pc = "failed" /\ report = [raised |-> "Exception"]
                               /\ files = <<>>)
    /\ [][files # <<>> => queries' = queries]_vars

\* A run in which the analytics daily query answered and both ads daily
\* queries failed: the three queries were sent, the run failed, nothing
\* was written.
C21_Witness ==
    /\ pc = "failed"
    /\ replies # <<>>
    /\ replies["ga4_daily"].ok
    /\ ~replies["ads_daily"].ok
    /\ ~replies["ads_daily_fallback"].ok
    /\ [i \in 1..Len(queries) |-> queries[i].query] =
           <<"ga4_daily", "ads_daily", "ads_daily_fallback">>
    /\ files = <<>>

\* ------------------------------------------- claims: the configuration
\* PROPERTY_ID or CUSTOMER_ID is unset or empty.
IdentifierMissing == env.PROPERTY_ID = "" \/ env.CUSTOMER_ID = ""

\* C22: when PROPERTY_ID or CUSTOMER_ID is missing, main of either program
\* returns before a provider client is constructed and before any fetch:
\* at no time is there a client, a query sent, collected data or a file
\* written.
C22_MissingIdentifierAborts ==
    IdentifierMissing =>
        /\ pc \in {"idle", "start", "returned"}
        /\ kr_pc \in {"idle", "start", "returned"}
        /\ clients = {}
        /\ queries = <<>>
        /\ files = <<>>
        /\ report = <<>>
        /\ kr_data = <<>>

\* The Korean main has returned in an environment that sets PROPERTY_ID
\* but not CUSTOMER_ID.
C22_Witness ==
    /\ kr_pc = "returned"
    /\ env.PROPERTY_ID # ""
    /\ env.CUSTOMER_ID = ""
    /\ clients = {}
    /\ queries = <<>>
    /\ files = <<>>

\* ------------------------------------------- claims: rows merged once
\* collect_all_data of the dashboard returned its report.
Completed == pc \in {"collected", "charts", "extra_charts", "report_html", "done"}

\* The one response the daily ads fetch returned: the primary's when the
\* primary answered, the fallback's otherwise.
ReturnedAdsResponse ==
    IF replies["ads_daily"].ok THEN replies["ads_daily"].rows
    ELSE replies["ads_daily_fallback"].rows

\* The total of a field over the rows of the response dated d.
ResponseTotal(rows, d, field) ==
    SumRows(SelectSeq(rows, LAMBDA r : r.date = d), field)

\* C23: every row of the daily ads fetch is merged at most once, also when
\* the primary query failed and the fallback was used: the rows merged are
\* those of the single response returned, and the totals of every daily
\* bucket are the totals of that response for the day, never twice and
\* never a mix of the two responses.
C23_RowsMergedOnce ==
    Completed =>
        /\ ads_rows = ReturnedAdsResponse
        /\ \A d \in DOMAIN report.ads_daily :
               /\ report.ads_daily[d].cost =
                      ResponseTotal(ReturnedAdsResponse, d, "cost_micros")
               /\ report.ads_daily[d].impressions =
                      ResponseTotal(ReturnedAdsResponse, d, "impressions")
               /\ report.ads_daily[d].clicks =
                      ResponseTotal(ReturnedAdsResponse, d, "clicks")
               /\ report.ads_daily[d].conversions =
                      ResponseTotal(ReturnedAdsResponse, d, "conversions")

\* A completed run of three days in which the primary daily ads query
\* failed and the fallback answered: the first day's bucket holds the cost
\* of the fallback's row for that day.
C23_Witness ==
    /\ pc = "collected"
    /\ strptime(end_date) = strptime(start_date) + 2
    /\ ~replies["ads_daily"].ok
    /\ replies["ads_daily_fallback"].ok
    /\ Len(ads_rows) = 3
    /\ ads_rows = replies["ads_daily_fallback"].rows
    /\ report.ads_daily[start_date].cost = ads_rows[1].cost_micros
    /\ report.ads_daily[start_date].cost > 0
    /\ \E i \in 1..Len(queries) : queries[i].query = "ads_daily_fallback"

\* ------------------------------------------ claims: the daily trend cost
\* The page the Korean report wrote.
KrPage == files[Len(files)].html

\* The ads rows of the calendar day a date text names, in either notation.
AdsRowsOfDay(text) ==
    SelectSeq(kr_replies.daily_ads, LAMBDA r : r.date.ord = text.ord)

\* C24: in the daily trend of the Korean report the ads cost shown for a
\* date is the cost the ads source reported for that calendar day (the
\* analytics 'YYYYMMDD' and the ads 'YYYY-MM-DD' text of one day are the
\* same key), and it is 0 only for a day without ads rows.
C24_DailyCostMatchesAdsSource ==
    kr_pc = "written" =>
        \A i \in 1..Len(KrPage.daily_labels) :
            LET rows == AdsRowsOfDay(KrPage.daily_labels[i])
            IN  /\ KrPage.daily_cost[i] = SumRows(rows, "cost_micros")
                /\ KrPage.daily_cost[i] = 0 => rows = <<>>

\* A written page whose first label is day 1, for which the ads source
\* reported two campaign rows costing 2.0 together and collect_all_data
\* holds that total under the 'YYYY-MM-DD' key, while the chart shows 0.
C24_Witness ==
    /\ kr_pc = "written"
    /\ KrPage.daily_labels = <<Ga4Text(1), Ga4Text(2), Ga4Text(3)>>
    /\ Len(AdsRowsOfDay(Ga4Text(1))) = 2
    /\ kr_data.daily.ads[1].date = isoformat(1)
    /\ kr_data.daily.ads[1].cost = 2000000
    /\ KrPage.daily_cost = <<0, 0, 0>>

\* ------------------------------------------- claims: the worked summary
\* The providers answered 1,000 sessions with 50 conversions, and an ads
\* cost of 2,000,000 with 45 conversions.
WorkedSummaryAnswered ==
    /\ kr_pc \in {"collected", "written"}
    /\ kr_replies.ga4_summary = <<Ga4SummaryRow(1000, 50)>>
    /\ kr_replies.ads_summary = <<AdsSummaryRow(2000000000, 4500)>>

\* C25: for 1,000 sessions, 50 analytics conversions, an ads cost of
\* 2,000,000 and 45 ads conversions the Korean report shows a conversion
\* rate of 5.0, a cost per conversion of 40,000 (ads cost over analytics
\* conversions) and no discrepancy finding (the sources differ by 10%).
C25_WorkedSummary ==
    WorkedSummaryAnswered =>
        /\ kr_data.summary.cvr = 500
        /\ kr_data.summary.total_cost = 2000000
        /\ kr_data.summary.ads_conversions = 450
        /\ kr_data.summary.cpa = 40000
        /\ \A i \in 1..Len(kr_data.anomalies.items) :
               kr_data.anomalies.items[i].type # "discrepancy"

\* The run with those answers and no country or city rows has collected
\* its data: the summary holds the three numbers and there is no finding.
C25_Witness ==
    /\ WorkedSummaryAnswered
    /\ kr_replies.countries = <<>>
    /\ kr_replies.cities = <<>>
    /\ kr_data.summary.sessions = 1000
    /\ kr_data.summary.conversions = 50
    /\ kr_data.summary.cpa = 40000
    /\ kr_data.anomalies.count = 0

\* ------------------------------------------------- claims: the alerts
\* The alert that reports that there is no finding.
CleanAlert == [class |-> "success", type |-> "clean"]

\* C26: the finding count of the Korean report is the number of findings;
\* the page shows the clean message exactly when the count is 0, and
\* otherwise exactly one alert per finding, in order, of class danger for a
\* finding of severity high and of class warning for any other.
C26_OneAlertPerFinding ==
    kr_pc = "written" =>
        LET found == kr_data.anomalies
            alerts == KrPage.anomaly_html
        IN  /\ found.count = Len(found.items)
            /\ (CleanAlert \in Range(alerts)) <=> (found.count = 0)
            /\ found.count = 0 => alerts = <<CleanAlert>>
            /\ found.count > 0 =>
                   /\ Len(alerts) = found.count
                   /\ \A i \in 1..Len(alerts) :
                          /\ alerts[i].type = found.items[i].type
                          /\ alerts[i].detail = found.items[i].detail
                          /\ alerts[i].class =
                                 IF found.items[i].severity = "high" THEN "danger"
                                 ELSE "warning"

\* A written page with at least two findings, one of severity high and
\* one of severity medium, shown as a danger and a warning alert.
C26_Witness ==
    /\ kr_pc = "written"
    /\ kr_data.anomalies.count >= 2
    /\ Len(KrPage.anomaly_html) = kr_data.anomalies.count
    /\ \E i, j \in 1..Len(KrPage.anomaly_html) :
           /\ kr_data.anomalies.items[i].severity = "high"
           /\ KrPage.anomaly_html[i].class = "danger"
           /\ kr_data.anomalies.items[j].severity = "medium"
           /\ KrPage.anomaly_html[j].class = "warning"

====
